---- MODULE Spec2Model ----
(***************************************************************************)
(* The matching engine of the exchange: Engine (internal/engine/engine.go) *)
(* and OrderBook (internal/engine/orderbook.go), fed with the orders that  *)
(* NewOrderMessage.Order (internal/net/messages.go) builds from the wire   *)
(* and with orders handed to the engine API directly.                      *)
(*                                                                         *)
(* Representation.                                                         *)
(*  - A btree is the sequence of its items in the order of its comparator. *)
(*  - Prices (float64) are small integers; UUIDs (strings compared with <) *)
(*    are small integers ordered like the strings they stand for.          *)
(*  - A uint64 is kept as an integer r: r >= 0 stands for r, r < 0 for     *)
(*    2^64 + r (the value a subtraction below zero wraps to).              *)
(*  - time.Now() is a monotonic clock reading: it never decreases, and two *)
(*    successive readings may be equal (OrderAsc provides for that case).  *)
(*  - An error value is the sequence of the error texts joined in it; nil  *)
(*    is the empty sequence.                                               *)
(***************************************************************************)
EXTENDS Integers, Sequences, FiniteSets, TLC

\* ---------------------------------------------------------------- bounds
MaxOps == 3
MaxPrice == 1
MaxQty == 2

\* ------------------------------------------------------- program constants
Equities == 0
Buy == 0
Sell == 1
LimitOrder == 0
MarketOrder == 1

ErrNotEnoughLiquidity == "not enough liquidity"
ErrRejection == "order rejection"
ErrBookNotFound == "order book not found"
ErrReport == "report failed"

\* --------------------------------------------------------------- input sets
Prices == 0..MaxPrice
Quantities == 0..MaxQty
UUIDs == {1, 2}
Owners == {"A", "B"}
\* Owner A calls the engine API itself and gives all its orders one UUID, as
\* placeTestOrders does; owner B is a client of the server, and UUID 2 is
\* what uuid.New() returns for its orders.
ApiCallers == {[UUID |-> 1, Owner |-> "A"]}
Usernames == {"B"}
NewUUIDs == {2}
Sides == {Buy, Sell}
OrderTypes == {LimitOrder, MarketOrder}
\* Asset types a caller may name: the supported one and an unsupported one.
AssetTypes == {Equities, Equities + 1}
\* engine.New(reporter, Equities), as the server's main constructs it.
supportedAssets == <<Equities>>
\* The arguments a caller of engine.New may pass: no asset type, the one the
\* program defines, or another value of the type.
Constructions == {<<>>, <<Equities>>, <<Equities + 1>>}

VARIABLES
    Books,      \* engine.Books: asset type -> OrderBook value
    Trades,     \* engine.Trades
    now,        \* the last reading of the clock
    nOps,       \* number of engine calls made so far
    last,       \* the last engine call: its arguments, result and effects
    constructedWith  \* the asset types engine.New was called with

vars == <<Books, Trades, now, nOps, last, constructedWith>>

VARIABLES
    buf,        \* the bytes of a frame as conn.Read left them in the buffer
    sent,       \* the order the client encoded into buf, if a client did
    parsed,     \* what parseMessage made of buf
    wire        \* a report and what Report.Serialize made of it

pvars == <<buf, sent, parsed, wire>>

\* No frame has arrived.
NoFrame == [kind |-> "none"]
NoBuffer ==
    /\ buf = <<>>
    /\ sent = NoFrame
    /\ parsed = NoFrame
    /\ wire = NoFrame

\* ------------------------------------------------------------ session layer
NConns == 2
NWorkers == 2
MaxFrames == 2
MaxHangUps == 1
TASK_CHAN_SIZE == 100
ClientMessagesSize == 1

VARIABLES
    clientSessions,  \* Server.clientSessions: the keys (remote addresses)
    socket,          \* connection -> "none", "open" or "closed" (by Close)
    hungUp,          \* the connections whose client has closed its end
    unread,          \* connection -> the frames sent and not yet read
    written,         \* connection -> the reports written to its socket
    tasks,           \* WorkerPool.tasks
    clientMessages,  \* Server.clientMessages
    workers,         \* worker -> where it is, its task and its message
    setup,           \* where WorkerPool.Setup is
    sessionHandlers, \* session handler -> where it is and its message
    acks,            \* the goroutines handleMessage started and not yet run
    acceptLoop,      \* where the accept loop of Run is
    dying,           \* the context of Run is cancelled, the tomb is dying
    crashed,         \* a goroutine panicked: the process is gone
    nFrames,         \* number of frames clients have sent so far
    placed,          \* owners of the orders the engine accepted
    hist             \* what the checks need of the past

svars == <<clientSessions, socket, hungUp, unread, written, tasks,
           clientMessages, workers, setup, sessionHandlers, acks,
           acceptLoop, dying, crashed, nFrames, placed, hist>>

Conns == 1..NConns
\* The goroutines Run starts with s.sessionHandler: one.
TwoSessionHandlers == {1, 2}
SessionHandlers == {1}

NoHistory ==
    [dispatched |-> [c \in Conns |-> <<>>],
     failedReads |-> {}, failedParses |-> {}, failedWrites |-> {},
     handled |-> [kind |-> "none"], trade |-> [kind |-> "none"],
     mutex |-> [locked |-> FALSE, unguarded |-> FALSE, relocked |-> FALSE],
     atSignal |-> {}]

\* net.New, and Run up to its accept loop: no connection yet, the pool's
\* supervisor and the session handler started, no worker yet.
NewServer ==
    /\ clientSessions = {}
    /\ socket = [c \in Conns |-> "none"]
    /\ hungUp = {}
    /\ unread = [c \in Conns |-> <<>>]
    /\ written = [c \in Conns |-> <<>>]
    /\ tasks = <<>>
    /\ clientMessages = <<>>
    /\ workers = [w \in 1..NWorkers |->
                    [pc |-> "unstarted", conn |-> 0, at |-> 0,
                     message |-> [kind |-> "none"]]]
    /\ setup = "running"
    /\ sessionHandlers = [d \in SessionHandlers |->
                            [pc |-> "select", message |-> [kind |-> "none"]]]
    /\ acks = {}
    /\ acceptLoop = "select"
    /\ dying = FALSE
    /\ crashed = FALSE
    /\ nFrames = 0
    /\ placed = {}
    /\ hist = NoHistory

\* ------------------------------------------------------------- worker pool
PoolSize == 2
MaxGoroutines == 4
MaxTasks == 3

VARIABLES
    pool,           \* the WorkerPool value: n and tasks
    madeBy,         \* the constructor that made it and the size asked for
    activeWorkers,  \* the local variable of Setup its closures share
    supervisor,     \* where Setup is, and the value it loaded
    goroutines,     \* goroutine started by t.Go -> where it is, its load
    tombDying,      \* the tomb of Setup is dying
    nTasks          \* number of tasks submitted so far

wvars == <<pool, madeBy, activeWorkers, supervisor, goroutines, tombDying,
           nTasks>>

\* NewWorkerPool: size is not used, n keeps its zero value.
NewWorkerPool(size) == [n |-> 0, tasks |-> <<>>]

\* The constructor of the pool the newest server calls: a pool of the size
\* asked for.
UtilsNewWorkerPool(size) == [n |-> size, tasks |-> <<>>]

\* The constructors and the pools they make for a given size.
Constructors(size) ==
    {[by |-> "NewWorkerPool", size |-> size, pool |-> NewWorkerPool(size)],
     [by |-> "utils.NewWorkerPool", size |-> size,
      pool |-> UtilsNewWorkerPool(size)]}

\* The pool made by constructor c, Setup called and at its first select.
NewPool(c) ==
    /\ pool = c.pool
    /\ madeBy = [by |-> c.by, size |-> c.size]
    /\ activeWorkers = 0
    /\ supervisor = [pc |-> "select", reg |-> 0]
    /\ goroutines = [g \in 1..MaxGoroutines |->
                        [pc |-> "unstarted", reg |-> 0]]
    /\ tombDying = FALSE
    /\ nTasks = 0

\* ------------------------------------- the queues, connections counted
\* The session layer with its connections told apart no further than by
\* where they are: MaxOpen of them are accepted, one more than the task
\* queue and the workers can hold.
MaxOpen == 103

VARIABLES
    nOpen,        \* number of connections accepted so far
    nQueued,      \* number of connections on pool.tasks
    nMessages,    \* number of messages on s.clientMessages
    readers,      \* worker -> where it is
    accepting     \* where the accept loop is

qvars == <<nOpen, nQueued, nMessages, readers, accepting>>

NewQueues ==
    /\ nOpen = 0
    /\ nQueued = 0
    /\ nMessages = 0
    /\ readers = [w \in 1..NWorkers |-> "unstarted"]
    /\ accepting = "Accept"

\* The state of the parts of the program an engine call leaves alone.
netVars == <<pvars, svars, wvars, qvars>>

\* ------------------------------------------------------------------ uint64
U64Less(a, b) ==
    IF (a < 0) = (b < 0) THEN a < b ELSE b < 0

U64Sub(a, b) == a - b

MinOrOne(a, b) ==
    IF (IF a < b THEN a ELSE b) > 1 THEN 1 ELSE (IF a < b THEN a ELSE b)
Min(a, b) == IF a < b THEN a ELSE b

\* ------------------------------------------------------------------- btree
\* OrderAsc: time priority, the UUID deciding between equal timestamps.
OrderAsc(a, b) ==
    IF a.ExchTimestamp < b.ExchTimestamp THEN TRUE
    ELSE IF a.ExchTimestamp > b.ExchTimestamp THEN FALSE
    ELSE a.UUID < b.UUID

\* The comparators of NewOrderBook: bids greatest first, asks least first.
BidLess(a, b) == a.PriceLevel > b.PriceLevel
AskLess(a, b) == a.PriceLevel < b.PriceLevel

\* The comparator a tree was created with: the bid levels', the ask levels',
\* or the one of the orders of a level.
Less(tree, a, b) ==
    CASE tree = "Bids" -> BidLess(a, b)
      [] tree = "Asks" -> AskLess(a, b)
      [] tree = "Orders" -> OrderAsc(a, b)

\* Two items are the same key when neither is less than the other.
Same(tree, a, b) == ~Less(tree, a, b) /\ ~Less(tree, b, a)

\* BTreeG.Set: replaces the item with the same key, else inserts in order.
TreeSet(tree, items, item) ==
    IF \E i \in DOMAIN items : Same(tree, items[i], item)
    THEN [i \in DOMAIN items |->
            IF Same(tree, items[i], item) THEN item ELSE items[i]]
    ELSE SelectSeq(items, LAMBDA e : Less(tree, e, item))
         \o <<item>>
         \o SelectSeq(items, LAMBDA e : Less(tree, item, e))

\* BTreeG.Delete: removes the item with the same key.
TreeDelete(tree, items, item) ==
    SelectSeq(items, LAMBDA e : ~Same(tree, e, item))

NewOrderBook ==
    [Bids |-> <<>>, Asks |-> <<>>,
     nBuyOrders |-> 0, nSellOrders |-> 0,
     buyQuantity |-> 0, sellQuantity |-> 0]

\* ------------------------------------------------------------------ engine
\* What a Trade keeps of an order it points to: the fields no match changes.
OrderRef(o) ==
    [UUID |-> o.UUID, Side |-> o.Side, OrderType |-> o.OrderType,
     LimitPrice |-> o.LimitPrice, TotalQuantity |-> o.TotalQuantity,
     ExchTimestamp |-> o.ExchTimestamp, Owner |-> o.Owner, Placed |-> o.Placed]

NewTrade(taker, maker, price, quantity) ==
    [Party |-> OrderRef(taker), CounterParty |-> OrderRef(maker),
     MatchQty |-> quantity, Price |-> price]

\* Reporter.Report(owner, trade): an error for the owners in failing.
Report(owner, trade, failing) ==
    [owner |-> owner, trade |-> trade, ok |-> owner \notin failing]

\* Engine.DoTrade: the reporter calls made, the error returned and the
\* trades log after the call.
DoTrade(trades, taker, maker, price, quantity, failing) ==
    LET trade == NewTrade(taker, maker, price, quantity)
        r1 == Report(taker.Owner, trade, failing)
        r2 == Report(maker.Owner, trade, failing)
    IN IF ~r1.ok
       THEN [err |-> <<ErrReport>>, reports |-> <<r1>>, Trades |-> trades]
       ELSE IF ~r2.ok
       THEN [err |-> <<ErrReport>>, reports |-> <<r1, r2>>, Trades |-> trades]
       ELSE [err |-> <<>>, reports |-> <<r1, r2>>,
             Trades |-> Append(trades, trade)]

\* The effects of one engine call gathered so far: the trades log, the
\* reporter calls, the matches made (each with the book it was made on) and
\* the errors Match collects.
NoEffects(trades) ==
    [Trades |-> trades, reports |-> <<>>, fills |-> <<>>, errs |-> <<>>]

\* One match were the error DoTrade returns dropped by every caller.
GatheredWithoutError(acc, t, fill, collect) ==
    [Trades |-> t.Trades,
     reports |-> acc.reports \o t.reports,
     fills |-> Append(acc.fills, fill),
     errs |-> acc.errs]

\* One match: DoTrade is called with the two orders after their quantities
\* were decremented; collect tells whether the caller keeps DoTrade's error.
Gathered(acc, t, fill, collect) ==
    [Trades |-> t.Trades,
     reports |-> acc.reports \o t.reports,
     fills |-> Append(acc.fills, fill),
     errs |-> IF collect THEN acc.errs \o t.err ELSE acc.errs]

Traded(acc, taker, maker, price, quantity, failing, kind, bids, asks, collect) ==
    Gathered(acc,
             DoTrade(acc.Trades, taker, maker, price, quantity, failing),
             [taker |-> taker, maker |-> maker, price |-> price,
              qty |-> quantity, kind |-> kind, bids |-> bids, asks |-> asks],
             collect)

\* --------------------------------------------------------------- OrderBook
\* Match's loop test were it to stop at equal best prices.
UncrossedOrLocked(bids, asks) ==
    \/ bids = <<>>
    \/ asks = <<>>
    \/ Head(bids).PriceLevel <= Head(asks).PriceLevel

\* Match, line 140: the loop ends when a side is empty or the best prices
\* do not cross.
Uncrossed(bids, asks) ==
    \/ bids = <<>>
    \/ asks = <<>>
    \/ Head(bids).PriceLevel < Head(asks).PriceLevel

\* Match, line 160: the ask is the taker when its timestamp is the later one.
AskIsTaker(askOrder, bidOrder) ==
    askOrder.ExchTimestamp > bidOrder.ExchTimestamp

\* The price handed to DoTrade were it the taker's level price.
MatchPriceOfTaker(askIsTaker, bestBid, bestAsk) ==
    IF askIsTaker THEN bestAsk.PriceLevel ELSE bestBid.PriceLevel

\* Match, lines 161 and 165: the price handed to DoTrade.
MatchPrice(askIsTaker, bestBid, bestAsk) ==
    IF askIsTaker THEN bestBid.PriceLevel ELSE bestAsk.PriceLevel

\* The same were a partly filled order taken out and set in again behind
\* the others.
AfterFillRequeued(orders, order) ==
    IF order.Quantity = 0
    THEN TreeDelete("Orders", orders, order)
    ELSE Append(TreeDelete("Orders", orders, order), order)

\* A level's orders after one of them was decremented: deleted when filled
\* (lines 171-176), else still in its place with the new quantity.
AfterFill(orders, order) ==
    IF order.Quantity = 0
    THEN TreeDelete("Orders", orders, order)
    ELSE TreeSet("Orders", orders, order)

WithOrders(levels, orders) ==
    <<[Head(levels) EXCEPT !.Orders = orders]>> \o Tail(levels)

\* Match, lines 146-177: the best bid level against the best ask level.
RECURSIVE MatchLevels(_, _, _, _)
MatchLevels(bids, asks, acc, failing) ==
    LET bestBid == Head(bids)
        bestAsk == Head(asks)
    IN IF bestAsk.Orders = <<>> \/ bestBid.Orders = <<>>
       THEN [Bids |-> bids, Asks |-> asks, acc |-> acc]
       ELSE
        LET ask0 == Head(bestAsk.Orders)
            bid0 == Head(bestBid.Orders)
            matchQty == Min(ask0.Quantity, bid0.Quantity)
            askOrder == [ask0 EXCEPT !.Quantity = @ - matchQty]
            bidOrder == [bid0 EXCEPT !.Quantity = @ - matchQty]
            askIsTaker == AskIsTaker(askOrder, bidOrder)
            price == MatchPrice(askIsTaker, bestBid, bestAsk)
            acc2 == IF askIsTaker
                    THEN Traded(acc, askOrder, bidOrder, price, matchQty,
                                failing, "limit", bids, asks, TRUE)
                    ELSE Traded(acc, bidOrder, askOrder, price, matchQty,
                                failing, "limit", bids, asks, TRUE)
        IN MatchLevels(WithOrders(bids, AfterFill(bestBid.Orders, bidOrder)),
                       WithOrders(asks, AfterFill(bestAsk.Orders, askOrder)),
                       acc2, failing)

\* Match, lines 179-185: a level left without orders is deleted.
DropEmpty(tree, levels) ==
    IF Head(levels).Orders = <<>>
    THEN TreeDelete(tree, levels, Head(levels))
    ELSE levels

RECURSIVE Match(_, _, _, _)

\* Match, lines 179-186: with the levels m as the inner loop left them, the
\* outer loop goes round again.
MatchAgain(m, failing) ==
    Match(DropEmpty("Bids", m.Bids), DropEmpty("Asks", m.Asks), m.acc, failing)

\* OrderBook.Match.
Match(bids, asks, acc, failing) ==
    IF Uncrossed(bids, asks)
    THEN [Bids |-> bids, Asks |-> asks, acc |-> acc, err |-> acc.errs]
    ELSE MatchAgain(MatchLevels(bids, asks, acc, failing), failing)

\* handleLimit, lines 288-296: the level at the order's price, created when
\* absent, with the order set into it.
InsertLimit(tree, levels, order) ==
    LET key == [PriceLevel |-> order.LimitPrice, Orders |-> <<>>]
        found == {i \in DOMAIN levels : Same(tree, levels[i], key)}
    IN IF found # {}
       THEN [i \in DOMAIN levels |->
               IF i \in found
               THEN [levels[i] EXCEPT
                       !.Orders = TreeSet("Orders", @, order)]
               ELSE levels[i]]
       ELSE TreeSet(tree, levels,
                    [PriceLevel |-> order.LimitPrice, Orders |-> <<order>>])

\* handleLimit, line 299: the book as Match m left it, and Match's error.
Matched(book, m) ==
    [book |-> [book EXCEPT !.Bids = m.Bids, !.Asks = m.Asks],
     acc |-> m.acc, err |-> m.err]

\* OrderBook.handleLimit.
handleLimit(book, trades, order, failing) ==
    LET bids == IF order.Side = Buy
                THEN InsertLimit("Bids", book.Bids, order) ELSE book.Bids
        asks == IF order.Side = Sell
                THEN InsertLimit("Asks", book.Asks, order) ELSE book.Asks
    IN Matched(book, Match(bids, asks, NoEffects(trades), failing))

\* handleMarket, lines 199-200: the liquidity check on the book's counters.
NotEnough(book, order) ==
    \/ order.Side = Buy /\ U64Less(book.sellQuantity, order.TotalQuantity)
    \/ order.Side = Sell /\ U64Less(book.buyQuantity, order.TotalQuantity)

\* The book a sweep is on: the swept side is levels, the other one untouched.
SweptBids(book, order, levels) == IF order.Side = Sell THEN levels ELSE book.Bids
SweptAsks(book, order, levels) == IF order.Side = Buy THEN levels ELSE book.Asks

\* handleMarket, lines 227-246: DeleteAscend over the best level. kept are
\* the orders visited and kept, rest the orders not visited yet.
RECURSIVE DeleteAscend(_, _, _, _, _, _, _, _)
DeleteAscend(book, levels, kept, rest, order, lifted, acc, failing) ==
    IF rest = <<>> \/ order.Quantity <= 0
    THEN [orders |-> kept \o rest, order |-> order, lifted |-> lifted,
          acc |-> acc]
    ELSE
     LET resting0 == Head(rest)
         matchQty == Min(order.Quantity, resting0.Quantity)
         order2 == [order EXCEPT !.Quantity = @ - matchQty]
         restingOrder == [resting0 EXCEPT !.Quantity = @ - matchQty]
         shown == WithOrders(levels, kept \o rest)
         acc2 == Traded(acc, order2, restingOrder, Head(levels).PriceLevel,
                        matchQty, failing, "market",
                        SweptBids(book, order, shown),
                        SweptAsks(book, order, shown), FALSE)
     IN IF restingOrder.Quantity = 0
        THEN DeleteAscend(book, levels, kept, Tail(rest), order2,
                          lifted + 1, acc2, failing)
        ELSE DeleteAscend(book, levels, Append(kept, restingOrder),
                          Tail(rest), order2, lifted, acc2, failing)

RECURSIVE Sweep(_, _, _, _, _, _)

\* The sweep were it to delete an emptied level only on going round again.
SweepOnKeepingLast(book, levels, d, failing) ==
    Sweep(book,
          IF d.orders = <<>> /\ d.order.Quantity > 0
          THEN Tail(levels)
          ELSE WithOrders(levels, d.orders),
          d.order, d.lifted, d.acc, failing)

\* handleMarket, lines 248-251: with the best level's orders as DeleteAscend d
\* left them, the level is deleted when empty and the sweep goes on.
SweepOn(book, levels, d, failing) ==
    Sweep(book,
          IF d.orders = <<>> THEN Tail(levels) ELSE WithOrders(levels, d.orders),
          d.order, d.lifted, d.acc, failing)

\* handleMarket, lines 217-252: the sweep. done is FALSE when the levels ran
\* out before the order was filled.
Sweep(book, levels, order, lifted, acc, failing) ==
    IF ~(order.Quantity > 0)
    THEN [levels |-> levels, order |-> order, lifted |-> lifted,
          acc |-> acc, done |-> TRUE]
    ELSE IF levels = <<>>
    THEN [levels |-> levels, order |-> order, lifted |-> lifted,
          acc |-> acc, done |-> FALSE]
    ELSE SweepOn(book, levels,
                 DeleteAscend(book, levels, <<>>, Head(levels).Orders, order,
                              lifted, acc, failing),
                 failing)

\* handleMarket, lines 254-262: the counters of the swept side.
Bookkeeping(book, order, liftedOrders) ==
    IF order.Side = Buy
    THEN [book EXCEPT
            !.sellQuantity = U64Sub(@, order.TotalQuantity),
            !.nSellOrders = U64Sub(@, liftedOrders)]
    ELSE [book EXCEPT
            !.buyQuantity = U64Sub(@, order.TotalQuantity),
            !.nBuyOrders = U64Sub(@, liftedOrders)]

\* handleMarket after the sweep s: the error of line 224 when the levels ran
\* out, else the bookkeeping and nil.
Swept(book, order, s) ==
    IF ~s.done
    THEN [book |-> [book EXCEPT !.Bids = SweptBids(book, order, s.levels),
                                !.Asks = SweptAsks(book, order, s.levels)],
          acc |-> s.acc, err |-> <<ErrNotEnoughLiquidity>>]
    ELSE [book |-> Bookkeeping(
                     [book EXCEPT !.Bids = SweptBids(book, order, s.levels),
                                  !.Asks = SweptAsks(book, order, s.levels)],
                     order, s.lifted),
          acc |-> s.acc, err |-> <<>>]

\* OrderBook.handleMarket.
handleMarket(book, trades, order, failing) ==
    IF NotEnough(book, order)
    THEN [book |-> book, acc |-> NoEffects(trades),
          err |-> <<ErrNotEnoughLiquidity>>]
    ELSE Swept(book, order,
               Sweep(book, IF order.Side = Buy THEN book.Asks ELSE book.Bids,
                     order, 0, NoEffects(trades), failing))

\* OrderBook.PlaceOrder: stamps the order with the clock reading, then
\* handles it by its type; any other type is accepted and ignored.
BookPlaceOrder(book, trades, order, clock, failing) ==
    LET stamped == [order EXCEPT !.ExchTimestamp = clock]
    IN IF stamped.OrderType = LimitOrder
       THEN handleLimit(book, trades, stamped, failing)
       ELSE IF stamped.OrderType = MarketOrder
       THEN handleMarket(book, trades, stamped, failing)
       ELSE [book |-> book, acc |-> NoEffects(trades), err |-> <<>>]

\* OrderBook.CancelOrder: not implemented, returns nil.
BookCancelOrder(book, uuid) ==
    [book |-> book, err |-> <<>>]

\* ------------------------------------------------------------------- wire
\* The NewOrder messages parseNewOrder can return (the fields the engine
\* reads). The limit price of a market order, which nothing reads, is 0.
NewOrderMessages ==
    {m \in [AssetType : AssetTypes, OrderType : OrderTypes,
            LimitPrice : Prices, Quantity : Quantities, Side : Sides,
            Username : Usernames] :
        m.OrderType = MarketOrder => m.LimitPrice = 0}

\* NewOrderMessage.Order: the fields it sets; the others keep Go's zero
\* value. uuid is the value uuid.New() returned.
Order(o, uuid) ==
    [UUID |-> uuid, OrderType |-> o.OrderType, LimitPrice |-> o.LimitPrice,
     Quantity |-> o.Quantity, Side |-> o.Side, Owner |-> o.Username,
     TotalQuantity |-> 0, ExchTimestamp |-> 0, Placed |-> 0]

\* An order as a caller of the engine API builds it (placeTestOrders):
\* remaining and total quantity both set to the quantity asked for.
ApiOrder(uuid, owner, orderType, side, price, qty) ==
    [UUID |-> uuid, OrderType |-> orderType, LimitPrice |-> price,
     Quantity |-> qty, Side |-> side, Owner |-> owner,
     TotalQuantity |-> qty, ExchTimestamp |-> 0, Placed |-> 0]

\* ------------------------------------------------------------------ Engine
\* engine.New: `for assetType := range supportedAssets` ranges over the
\* indices of its argument, so there is one book for each index 0, 1, ...
New(assets) ==
    [a \in {i - 1 : i \in DOMAIN assets} |-> NewOrderBook]

Counters(book) ==
    [nBuyOrders |-> book.nBuyOrders, nSellOrders |-> book.nSellOrders,
     buyQuantity |-> book.buyQuantity, sellQuantity |-> book.sellQuantity]

\* What last keeps of the order of the call.
Asked(order) ==
    [OrderType |-> order.OrderType, Side |-> order.Side,
     LimitPrice |-> order.LimitPrice, Quantity |-> order.Quantity,
     TotalQuantity |-> order.TotalQuantity]

NoCall ==
    [op |-> "none", asset |-> Equities, order |-> <<>>, uuid |-> 0,
     err |-> <<>>, fills |-> <<>>, reports |-> <<>>,
     local |-> Counters(NewOrderBook)]

\* The engine as New(reporter, assets...) returns it.
NewEngine(assets) ==
    /\ constructedWith = assets
    /\ Books = New(assets)
    /\ Trades = <<>>
    /\ now = 0
    /\ nOps = 0
    /\ last = NoCall

Init ==
    /\ NewEngine(supportedAssets)
    /\ NoBuffer
    /\ NewServer
    /\ \E c \in Constructors(PoolSize) :
          c.by = "NewWorkerPool" /\ NewPool(c)
    /\ NewQueues

\* The engine used as a library: New called with any of Constructions.
InitAny ==
    /\ \E assets \in Constructions : NewEngine(assets)
    /\ NoBuffer
    /\ NewServer
    /\ \E c \in Constructors(PoolSize) :
          c.by = "NewWorkerPool" /\ NewPool(c)
    /\ NewQueues

\* A pool made by either constructor.
InitPool ==
    /\ NewEngine(supportedAssets)
    /\ NoBuffer
    /\ NewServer
    /\ \E c \in Constructors(PoolSize) : NewPool(c)
    /\ NewQueues

\* Engine.PlaceOrder, line 43: the state when book.PlaceOrder returned r.
Returned(assetType, order, clock, r) ==
    /\ Books' = [Books EXCEPT ![assetType].Bids = r.book.Bids,
                              ![assetType].Asks = r.book.Asks]
    /\ Trades' = r.acc.Trades
    /\ now' = clock
    /\ last' = [op |-> "place", asset |-> assetType,
                order |-> Asked(order), uuid |-> 0,
                err |-> r.err, fills |-> r.acc.fills,
                reports |-> r.acc.reports,
                local |-> Counters(r.book)]

\* Engine.PlaceOrder. The book is looked up in a map of OrderBook values, so
\* the call works on a copy: the trees, held by pointer, are the stored
\* book's, the counters are the copy's and are dropped with it (last.local
\* keeps them as they were when the call returned).
EnginePlaceOrder(assetType, order, clock, failing) ==
    /\ nOps < MaxOps
    /\ nOps' = nOps + 1
    /\ UNCHANGED constructedWith
    /\ IF assetType \notin DOMAIN Books
       THEN /\ last' = [NoCall EXCEPT !.op = "place", !.asset = assetType,
                          !.order = Asked(order),
                          !.err = <<ErrBookNotFound>>]
            /\ UNCHANGED <<Books, Trades, now>>
       ELSE Returned(assetType, order, clock,
                     BookPlaceOrder(Books[assetType], Trades,
                                    [order EXCEPT !.Placed = nOps + 1],
                                    clock, failing))

\* Engine.CancelOrder.
EngineCancelOrder(assetType, uuid) ==
    /\ nOps < MaxOps
    /\ nOps' = nOps + 1
    /\ UNCHANGED constructedWith
    /\ IF assetType \notin DOMAIN Books
       THEN /\ last' = [NoCall EXCEPT !.op = "cancel", !.asset = assetType,
                          !.uuid = uuid, !.err = <<ErrBookNotFound>>]
            /\ UNCHANGED <<Books, Trades, now>>
       ELSE LET r == BookCancelOrder(Books[assetType], uuid)
            IN /\ Books' = [Books EXCEPT ![assetType].Bids = r.book.Bids,
                                         ![assetType].Asks = r.book.Asks]
               /\ last' = [NoCall EXCEPT !.op = "cancel",
                             !.asset = assetType, !.uuid = uuid,
                             !.err = r.err, !.local = Counters(r.book)]
               /\ UNCHANGED <<Trades, now>>

\* ------------------------------------------------------------- environment
\* The levels of a book and the orders resting in it.
Levels(book) ==
    {book.Bids[j] : j \in DOMAIN book.Bids}
    \cup {book.Asks[j] : j \in DOMAIN book.Asks}

Resting(book) ==
    UNION {{l.Orders[i] : i \in DOMAIN l.Orders} : l \in Levels(book)}

\* The readings time.Now() may return: later than the last one, or equal to
\* it. The code compares the timestamp of a new order with those of the
\* orders of its own level (OrderAsc) and of the other side (Match); the
\* equal reading is told apart from the later one where such an order
\* carries it.
Readings(assetType, order) ==
    IF /\ assetType \in DOMAIN Books
       /\ order.OrderType = LimitOrder
       /\ \E o \in Resting(Books[assetType]) :
            /\ o.ExchTimestamp = now
            /\ o.Side = order.Side => o.LimitPrice = order.LimitPrice
    THEN {now, now + 1}
    ELSE {now + 1}

\* The reporter takes part only in a call that matches orders: a market
\* order that passes the liquidity check, a limit order that crosses the
\* best price of the other side. Its outcome, the owners it fails for, is
\* chosen among the owners such a call can report to.
MayMatch(book, order) ==
    LET other == IF order.Side = Buy THEN book.Asks ELSE book.Bids
    IN /\ other # <<>>
       /\ IF order.OrderType = MarketOrder
          THEN ~NotEnough(book, order) /\ order.Quantity > 0
          ELSE IF order.Side = Buy
               THEN order.LimitPrice >= Head(other).PriceLevel
               ELSE order.LimitPrice <= Head(other).PriceLevel

Outcomes(assetType, order) ==
    IF assetType \in DOMAIN Books /\ MayMatch(Books[assetType], order)
    THEN SUBSET ({order.Owner} \cup
                 {o.Owner : o \in {r \in Resting(Books[assetType]) :
                                     r.Side # order.Side}})
    ELSE {{}}

\* The orders the engine's callers build themselves.
ApiOrders ==
    {ApiOrder(c.UUID, c.Owner, t, s, p, q) :
        c \in ApiCallers, t \in OrderTypes, s \in Sides,
        p \in Prices, q \in Quantities}

\* A call that names an asset type without a book ends before it reads the
\* order: one order of each type is tried.
Named(assetType, orders) ==
    IF assetType \in DOMAIN Books
    THEN orders
    ELSE {o \in orders : o.Quantity = 1 /\ o.LimitPrice = 0 /\ o.Side = Buy}

PlaceApiOrder ==
    /\ nOps < MaxOps
    /\ \E assetType \in AssetTypes :
      \E order \in Named(assetType,
                         {o \in ApiOrders :
                            o.OrderType = MarketOrder => o.LimitPrice = 0}) :
        \E clock \in Readings(assetType, order) :
          \E failing \in Outcomes(assetType, order) :
            /\ EnginePlaceOrder(assetType, order, clock, failing)
            /\ UNCHANGED netVars

\* The dispatcher's call for a NewOrder message: the order is built by
\* Order and handed to Engine.PlaceOrder.
PlaceNewOrder ==
    /\ nOps < MaxOps
    /\ \E o \in NewOrderMessages :
      \E uuid \in NewUUIDs :
       \E order \in Named(o.AssetType, {Order(o, uuid)}) :
        \E clock \in Readings(o.AssetType, order) :
          \E failing \in Outcomes(o.AssetType, order) :
            /\ EnginePlaceOrder(o.AssetType, order, clock, failing)
            /\ UNCHANGED netVars

CancelOrder ==
    /\ nOps < MaxOps
    /\ \E assetType \in AssetTypes, uuid \in UUIDs :
        EngineCancelOrder(assetType, uuid)
    /\ UNCHANGED netVars

Next ==
    \/ PlaceApiOrder
    \/ PlaceNewOrder
    \/ CancelOrder

allVars == <<vars, netVars>>

Spec == Init /\ [][Next]_allVars

\* The same calls on an engine constructed with any of Constructions.
LibrarySpec == InitAny /\ [][Next]_allVars

\* ------------------------------------------------------------- properties
\* The orders of a side, best level first, and their total quantity.
RECURSIVE Flat(_)
Flat(levels) ==
    IF levels = <<>> THEN <<>> ELSE Head(levels).Orders \o Flat(Tail(levels))

RECURSIVE SumQuantity(_)
SumQuantity(orders) ==
    IF orders = <<>> THEN 0
    ELSE Head(orders).Quantity + SumQuantity(Tail(orders))

OrdersOn(levels) == {Flat(levels)[i] : i \in DOMAIN Flat(levels)}

\* The side of a book an order rests on, and the side it matches against.
OwnSide(bids, asks, order) == IF order.Side = Buy THEN bids ELSE asks
OtherSide(bids, asks, order) == IF order.Side = Buy THEN asks ELSE bids

\* The same order at two moments: one call places one order.
SameOrder(a, b) == a.Placed = b.Placed

\* The last step was a PlaceOrder call on a book the engine has.
PlacedOnBook == last.op = "place" /\ last.asset \in DOMAIN Books
CancelledOnBook == last.op = "cancel" /\ last.asset \in DOMAIN Books

\* C1: after every PlaceOrder and CancelOrder call, on each side of the book
\* the quantity counter equals the sum of the remaining quantities of the
\* resting orders and the order counter equals their number. Stated of the
\* counters of the book the call worked on and of the book the engine keeps.
C1_CountersMatchBook ==
    (PlacedOnBook \/ CancelledOnBook) =>
        LET book == Books[last.asset]
            actual == [nBuyOrders |-> Len(Flat(book.Bids)),
                       nSellOrders |-> Len(Flat(book.Asks)),
                       buyQuantity |-> SumQuantity(Flat(book.Bids)),
                       sellQuantity |-> SumQuantity(Flat(book.Asks))]
        IN /\ last.local = actual
           /\ Counters(book) = actual

\* C2: after every PlaceOrder call, when both sides are non-empty every bid
\* level is priced strictly below every ask level: the book is neither
\* crossed nor locked.
C2_NeverCrossed ==
    \A a \in DOMAIN Books :
        \A i \in DOMAIN Books[a].Bids, j \in DOMAIN Books[a].Asks :
            Books[a].Bids[i].PriceLevel < Books[a].Asks[j].PriceLevel

\* C2's case: a PlaceOrder call matched orders and left both sides non-empty.
C2_Witness ==
    /\ PlacedOnBook
    /\ last.fills # <<>>
    /\ Books[last.asset].Bids # <<>>
    /\ Books[last.asset].Asks # <<>>

\* An order of a fill had priority in the book the fill was made on: no other
\* order of its side had a strictly better price, and none at its price that
\* was placed earlier still had remaining quantity.
HadPriority(f, order) ==
    \A o \in OrdersOn(OwnSide(f.bids, f.asks, order)) :
        ~SameOrder(o, order) =>
            /\ IF order.Side = Buy
               THEN ~(o.LimitPrice > order.LimitPrice)
               ELSE ~(o.LimitPrice < order.LimitPrice)
            /\ ~(/\ o.LimitPrice = order.LimitPrice
                 /\ o.Placed < order.Placed
                 /\ o.Quantity > 0)

\* C3: whenever a resting order receives a fill, from limit matching or from
\* a market sweep, it had price-time priority on its side of the book.
C3_PriceTimePriority ==
    \A i \in DOMAIN last.fills :
        LET f == last.fills[i]
        IN /\ HadPriority(f, f.maker)
           /\ f.kind = "limit" => HadPriority(f, f.taker)

\* C4: every trade carries the price of the level its maker order rests on,
\* whatever the taker's limit price is.
C4_PriceOfMakerLevel ==
    /\ \A i \in DOMAIN last.fills :
        LET f == last.fills[i]
            side == OwnSide(f.bids, f.asks, f.maker)
        IN \E j \in DOMAIN side :
            /\ side[j].PriceLevel = f.price
            /\ \E k \in DOMAIN side[j].Orders :
                SameOrder(side[j].Orders[k], f.maker)
    /\ \A i \in DOMAIN last.reports :
        last.reports[i].trade.Price = last.reports[i].trade.CounterParty.LimitPrice

\* C4's case: a limit order was matched as taker at a price that is not its
\* own limit price.
C4_Witness ==
    \E i \in DOMAIN last.fills :
        /\ last.fills[i].taker.OrderType = LimitOrder
        /\ last.fills[i].taker.LimitPrice # last.fills[i].price
        /\ last.fills[i].qty > 0

\* The quantity matched so far for the order of call p, over the trades log.
RECURSIVE MatchedQty(_, _)
MatchedQty(trades, p) ==
    IF trades = <<>> THEN 0
    ELSE (IF Head(trades).Party.Placed = p \/ Head(trades).CounterParty.Placed = p
          THEN Head(trades).MatchQty ELSE 0)
         + MatchedQty(Tail(trades), p)

\* C5: for every order passed to the engine, also one built from a NewOrder
\* frame, the remaining quantity never exceeds the total quantity and the
\* quantities of its trades sum to at most its total quantity.
C5_RemainingWithinTotal ==
    /\ \A a \in DOMAIN Books : \A o \in Resting(Books[a]) :
        o.Quantity <= o.TotalQuantity
    /\ \A i \in DOMAIN Trades :
        /\ MatchedQty(Trades, Trades[i].Party.Placed)
              <= Trades[i].Party.TotalQuantity
        /\ MatchedQty(Trades, Trades[i].CounterParty.Placed)
              <= Trades[i].CounterParty.TotalQuantity

\* The step is a PlaceOrder call of a market order on a book the engine has.
MarketOrderPlaced ==
    /\ nOps' = nOps + 1
    /\ last'.op = "place"
    /\ last'.asset \in DOMAIN Books
    /\ last'.order.OrderType = MarketOrder

\* The quantity resting on the side a call's order matches against.
Liquidity(call) ==
    SumQuantity(Flat(OtherSide(Books[call.asset].Bids, Books[call.asset].Asks,
                               call.order)))

RECURSIVE FilledQty(_)
FilledQty(fills) ==
    IF fills = <<>> THEN 0 ELSE Head(fills).qty + FilledQty(Tail(fills))

\* C6: a market order for more than the quantity resting on the opposite
\* side returns NotEnoughLiquidity, makes no trade and leaves the book and
\* its counters as they were.
C6_RejectedWithoutEffect ==
    [][(MarketOrderPlaced /\ Liquidity(last') < last'.order.Quantity) =>
          /\ last'.err = <<ErrNotEnoughLiquidity>>
          /\ last'.fills = <<>>
          /\ Trades' = Trades
          /\ Books' = Books
          /\ last'.local = Counters(Books[last'.asset])]_vars

\* C7: a market order whose total quantity is at most the quantity resting
\* on the opposite side is accepted, is completely filled when the call
\* returns, and rests on neither side of the book. Stated of the orders
\* handed over with nothing filled yet (remaining = total quantity).
C7_AcceptedAndFilled ==
    [][(/\ MarketOrderPlaced
        /\ last'.order.Quantity = last'.order.TotalQuantity
        /\ last'.order.TotalQuantity <= Liquidity(last')) =>
          /\ last'.err = <<>>
          /\ FilledQty(last'.fills) = last'.order.Quantity
          /\ \A o \in Resting(Books'[last'.asset]) : o.Placed # nOps']_vars

\* The step is a CancelOrder call on a book the engine has.
Cancelled ==
    /\ nOps' = nOps + 1
    /\ last'.op = "cancel"
    /\ last'.asset \in DOMAIN Books

\* C8: CancelOrder with the id of a resting order removes the order from the
\* book, so that no order with that id rests when the call returns.
C8_CancelRemoves ==
    [][(Cancelled /\ \E o \in Resting(Books[last'.asset]) :
                        o.UUID = last'.uuid) =>
          \A o \in Resting(Books'[last'.asset]) : o.UUID # last'.uuid]_vars

\* C9: CancelOrder with an id that rests nowhere on the book returns an
\* error and leaves the book unchanged.
C9_UnknownOrderRejected ==
    [][(Cancelled /\ \A o \in Resting(Books[last'.asset]) :
                        o.UUID # last'.uuid) =>
          /\ last'.err # <<>>
          /\ Books' = Books]_vars

\* C10: for every match the reporter is called exactly twice, for the
\* taker's owner and then for the maker's owner.
C10_BothPartiesReported ==
    /\ Len(last.reports) = 2 * Len(last.fills)
    /\ \A i \in DOMAIN last.fills :
        /\ last.reports[2 * i - 1].owner = last.fills[i].taker.Owner
        /\ last.reports[2 * i].owner = last.fills[i].maker.Owner

\* The asset types New was called with.
Constructed == {constructedWith[i] : i \in DOMAIN constructedWith}

\* The step is a PlaceOrder or CancelOrder call of the engine.
EngineCalled == nOps' = nOps + 1

\* C22: Engine.PlaceOrder and Engine.CancelOrder return BookNotFound, and
\* touch no book, exactly when the asset type is not one the engine was
\* constructed with; a call for an asset type passed to New works on the
\* book of that asset type and on no other.
C22_RoutedToOwnBook ==
    [][EngineCalled =>
          /\ (last'.err = <<ErrBookNotFound>>)
                <=> (last'.asset \notin Constructed)
          /\ last'.asset \notin Constructed => Books' = Books
          /\ last'.asset \in Constructed =>
                /\ last'.asset \in DOMAIN Books
                /\ \A a \in DOMAIN Books \ {last'.asset} :
                      Books'[a] = Books[a]]_vars

\* C23: in every trade of limit/limit matching the taker is the order with
\* the later exchange timestamp, and that order is the one whose PlaceOrder
\* call triggered the match; the maker was resting before that call.
C23_TakerIsNewOrder ==
    \A i \in DOMAIN last.fills :
        last.fills[i].kind = "limit" =>
            /\ last.fills[i].taker.ExchTimestamp
                  > last.fills[i].maker.ExchTimestamp
            /\ last.fills[i].taker.Placed = nOps
            /\ last.fills[i].maker.Placed < nOps

\* C24: after any PlaceOrder call returns, no order with remaining quantity
\* 0 rests on the book, a limit order placed with quantity 0 that does not
\* cross included.
C24_NoFilledOrderRests ==
    PlacedOnBook =>
        \A o \in Resting(Books[last.asset]) : o.Quantity # 0

\* C25: after every PlaceOrder and CancelOrder call, no price level without
\* orders exists on either side of the book: the call that removes the last
\* order of a level deletes the level.
C25_NoEmptyLevel ==
    \A a \in DOMAIN Books :
        \A l \in Levels(Books[a]) : l.Orders # <<>>

\* C25's case: a call filled the last order of a level, by limit matching
\* or by a market sweep, and the level is gone.
C25_Witness ==
    /\ PlacedOnBook
    /\ \E i \in DOMAIN last.fills :
        /\ last.fills[i].maker.Quantity = 0
        /\ last.fills[i].qty > 0
        /\ \E l \in Levels([Bids |-> last.fills[i].bids,
                             Asks |-> last.fills[i].asks]) :
            /\ l.PriceLevel = last.fills[i].price
            /\ Len(l.Orders) = 1
            /\ l.Orders[1].Side = last.fills[i].maker.Side
        /\ \A l \in Levels(Books[last.asset]) :
              l.Orders[1].Side = last.fills[i].maker.Side
                  => l.PriceLevel # last.fills[i].price

\* The levels of a side at price p (at most one) and the others; the orders
\* resting at price p.
LevelsAt(levels, p) == SelectSeq(levels, LAMBDA l : l.PriceLevel = p)
LevelsNotAt(levels, p) == SelectSeq(levels, LAMBDA l : l.PriceLevel # p)
OrdersAt(levels, p) ==
    IF LevelsAt(levels, p) = <<>> THEN <<>> ELSE LevelsAt(levels, p)[1].Orders

\* A side is iterated best price first: bids from the highest price down,
\* asks from the lowest price up.
BestFirst(levels, side) ==
    \A i, j \in DOMAIN levels :
        i < j => IF side = Buy
                 THEN levels[i].PriceLevel > levels[j].PriceLevel
                 ELSE levels[i].PriceLevel < levels[j].PriceLevel

\* The limit price of an order does not cross the best price of the side it
\* matches against.
DoesNotCross(other, order) ==
    \/ other = <<>>
    \/ IF order.Side = Buy
       THEN order.LimitPrice < Head(other).PriceLevel
       ELSE order.LimitPrice > Head(other).PriceLevel

\* The step is a PlaceOrder call of a limit order that does not cross.
PassiveLimitPlaced ==
    /\ nOps' = nOps + 1
    /\ last'.op = "place"
    /\ last'.asset \in DOMAIN Books
    /\ last'.order.OrderType = LimitOrder
    /\ DoesNotCross(OtherSide(Books[last'.asset].Bids,
                              Books[last'.asset].Asks, last'.order),
                    last'.order)

\* The order of a call as it rests: the fields asked for, and the call.
RestsAsAsked(o, call, n) ==
    /\ o.Placed = n
    /\ Asked(o) = call.order

\* What a passive limit order does to the side own it rests on: after the
\* call the side is after.
InsertedAtTail(own, after, call, n) ==
    /\ LevelsNotAt(after, call.order.LimitPrice)
          = LevelsNotAt(own, call.order.LimitPrice)
    /\ Len(LevelsAt(after, call.order.LimitPrice)) = 1
    /\ Len(OrdersAt(after, call.order.LimitPrice))
          = Len(OrdersAt(own, call.order.LimitPrice)) + 1
    /\ SubSeq(OrdersAt(after, call.order.LimitPrice), 1,
              Len(OrdersAt(own, call.order.LimitPrice)))
          = OrdersAt(own, call.order.LimitPrice)
    /\ RestsAsAsked(OrdersAt(after, call.order.LimitPrice)
                       [Len(OrdersAt(after, call.order.LimitPrice))],
                    call, n)
    /\ BestFirst(after, call.order.Side)

\* C26: placing a limit order whose price does not cross the best price of
\* the other side makes no trade, inserts the order at the tail of the level
\* at its limit price on its own side (a new level if there was none) and
\* leaves every other order and level as it was, bids kept highest price
\* first and asks lowest price first.
C26_PassiveLimitRests ==
    [][PassiveLimitPlaced =>
          /\ last'.fills = <<>>
          /\ Trades' = Trades
          /\ OtherSide(Books'[last'.asset].Bids, Books'[last'.asset].Asks,
                       last'.order)
                = OtherSide(Books[last'.asset].Bids, Books[last'.asset].Asks,
                            last'.order)
          /\ InsertedAtTail(
                OwnSide(Books[last'.asset].Bids, Books[last'.asset].Asks,
                        last'.order),
                OwnSide(Books'[last'.asset].Bids, Books'[last'.asset].Asks,
                        last'.order),
                last', nOps')]_vars

\* An order is one of the two of the fill f.
InFill(o, f) == SameOrder(o, f.taker) \/ SameOrder(o, f.maker)

\* The orders of a level after the fill f if f changes nothing but the
\* remaining quantity of its two orders, a filled one leaving the book.
OrdersAfter(orders, f) ==
    SelectSeq([k \in DOMAIN orders |->
                  IF InFill(orders[k], f)
                  THEN [orders[k] EXCEPT !.Quantity = @ - f.qty]
                  ELSE orders[k]],
              LAMBDA o : ~(InFill(o, f) /\ o.Quantity = 0))

\* The levels of a side after the fill f, likewise: a level is gone when f
\* filled its last order.
LevelsAfter(levels, f) ==
    SelectSeq([j \in DOMAIN levels |->
                  [levels[j] EXCEPT !.Orders = OrdersAfter(@, f)]],
              LAMBDA l : l.Orders # <<>>)

\* The book as the i-th fill of the last call left it: the book the next
\* fill was made on, or the book the call left.
BidsLeftBy(i) ==
    IF i < Len(last.fills)
    THEN last.fills[i + 1].bids ELSE Books[last.asset].Bids
AsksLeftBy(i) ==
    IF i < Len(last.fills)
    THEN last.fills[i + 1].asks ELSE Books[last.asset].Asks

\* C27: a match changes only the remaining quantity of its two orders. Their
\* price, side, total quantity, exchange timestamp and level stay as they
\* were, a partly filled resting order stays at the head of its level, and
\* every other order is untouched.
C27_MatchChangesQuantityOnly ==
    PlacedOnBook =>
        \A i \in DOMAIN last.fills :
            /\ BidsLeftBy(i) = LevelsAfter(last.fills[i].bids, last.fills[i])
            /\ AsksLeftBy(i) = LevelsAfter(last.fills[i].asks, last.fills[i])
            /\ \A o \in OrdersOn(last.fills[i].bids)
                        \cup OrdersOn(last.fills[i].asks) :
                /\ SameOrder(o, last.fills[i].maker)
                      => OrderRef(o) = OrderRef(last.fills[i].maker)
                /\ SameOrder(o, last.fills[i].taker)
                      => OrderRef(o) = OrderRef(last.fills[i].taker)

\* C27's case: a resting order was partly filled by limit matching and is
\* still the first of the several orders of its level.
C27_Witness ==
    /\ PlacedOnBook
    /\ \E i \in DOMAIN last.fills :
        /\ last.fills[i].kind = "limit"
        /\ last.fills[i].qty > 0
        /\ last.fills[i].maker.Quantity > 0
        /\ \E l \in Levels(Books[last.asset]) :
            /\ Len(l.Orders) >= 2
            /\ SameOrder(l.Orders[1], last.fills[i].maker)

\* The step before was a PlaceOrder call of a limit order on a book.
LimitPlaced == PlacedOnBook /\ last.order.OrderType = LimitOrder

\* The reporter calls of the last engine call that returned an error: one
\* for each match whose DoTrade failed.
FailedReports == SelectSeq(last.reports, LAMBDA r : ~r.ok)

\* C28: when the reporter returns an error for a trade of limit/limit
\* matching, matching goes on until the book is uncrossed, the quantities of
\* that trade stay decremented, and PlaceOrder returns the join of all the
\* reporter errors collected.
C28_ReportErrorsJoined ==
    LimitPlaced =>
        /\ last.err = [k \in 1..Len(FailedReports) |-> ErrReport]
        /\ Uncrossed(Books[last.asset].Bids, Books[last.asset].Asks)
        /\ \A i \in DOMAIN last.fills :
            /\ BidsLeftBy(i) = LevelsAfter(last.fills[i].bids, last.fills[i])
            /\ AsksLeftBy(i) = LevelsAfter(last.fills[i].asks, last.fills[i])

\* C28's case: the reporter failed for the first trade of a limit order and
\* for a later one, and the order was matched on after the first failure.
C28_Witness ==
    /\ LimitPlaced
    /\ Len(last.fills) >= 2
    /\ last.fills[1].qty > 0
    /\ ~last.reports[1].ok
    /\ Len(last.err) >= 2

\* C29: every match a book performs (the quantities of both orders
\* decremented) is appended exactly once to the trades log of the engine, so
\* that the log accounts for all the quantity matching removed.
C29_EveryMatchLogged ==
    [][(EngineCalled /\ last'.op = "place") =>
          /\ Len(Trades') = Len(Trades) + Len(last'.fills)
          /\ SubSeq(Trades', 1, Len(Trades)) = Trades
          /\ \A i \in DOMAIN last'.fills :
                Trades'[Len(Trades) + i]
                  = NewTrade(last'.fills[i].taker, last'.fills[i].maker,
                             last'.fills[i].price, last'.fills[i].qty)]_vars

\* The step is a PlaceOrder call of a limit order priced at 0 or below.
UnpricedLimitPlaced ==
    /\ nOps' = nOps + 1
    /\ last'.op = "place"
    /\ last'.asset \in DOMAIN Books
    /\ last'.order.OrderType = LimitOrder
    /\ last'.order.LimitPrice <= 0

\* C30: no limit order with a limit price of 0 or below ever rests on the
\* book or takes part in a trade: PlaceOrder rejects it and leaves the book
\* as it was.
C30_UnpricedLimitRejected ==
    /\ [](\A a \in DOMAIN Books : \A o \in Resting(Books[a]) :
            o.OrderType = LimitOrder => o.LimitPrice > 0)
    /\ [](\A i \in DOMAIN last.fills :
            /\ last.fills[i].taker.OrderType = LimitOrder
                  => last.fills[i].taker.LimitPrice > 0
            /\ last.fills[i].maker.OrderType = LimitOrder
                  => last.fills[i].maker.LimitPrice > 0)
    /\ [][UnpricedLimitPlaced =>
            /\ last'.err = <<ErrRejection>>
            /\ last'.fills = <<>>
            /\ Books' = Books]_vars

\* The quantity the fills of a call took from the order of call n.
RECURSIVE FilledOf(_, _)
FilledOf(fills, n) ==
    IF fills = <<>> THEN 0
    ELSE (IF Head(fills).taker.Placed = n \/ Head(fills).maker.Placed = n
          THEN Head(fills).qty ELSE 0)
         + FilledOf(Tail(fills), n)

\* The step is a PlaceOrder call of a limit order that the book accepted.
LimitAccepted ==
    /\ nOps' = nOps + 1
    /\ last'.op = "place"
    /\ last'.asset \in DOMAIN Books
    /\ last'.order.OrderType = LimitOrder
    /\ \A i \in DOMAIN last'.err : last'.err[i] # ErrRejection

\* The order of call n rests in levels, at its limit price, with what the
\* fills left of its quantity and its total quantity as asked.
RestsWithRemainder(levels, call, n) ==
    \E o \in OrdersOn(LevelsAt(levels, call.order.LimitPrice)) :
        /\ o.Placed = n
        /\ o.LimitPrice = call.order.LimitPrice
        /\ o.Side = call.order.Side
        /\ o.Quantity = call.order.Quantity - FilledOf(call.fills, n)
        /\ o.TotalQuantity = call.order.TotalQuantity

\* C34: after PlaceOrder of a limit order returns, the order is fully
\* filled or what is left of it rests once, on its own side, at its limit
\* price, its total quantity unchanged; every order that rested before the
\* call still rests or took part in a fill of the call.
C34_LimitFilledOrRests ==
    [][LimitAccepted =>
          /\ \/ /\ FilledOf(last'.fills, nOps') = last'.order.Quantity
                /\ \A o \in Resting(Books'[last'.asset]) : o.Placed # nOps'
             \/ /\ RestsWithRemainder(
                      OwnSide(Books'[last'.asset].Bids,
                              Books'[last'.asset].Asks, last'.order),
                      last', nOps')
                /\ Cardinality({o \in Resting(Books'[last'.asset]) :
                                   o.Placed = nOps'}) = 1
          /\ \A o \in Resting(Books[last'.asset]) :
                \/ \E r \in Resting(Books'[last'.asset]) : SameOrder(r, o)
                \/ \E i \in DOMAIN last'.fills :
                      InFill(o, last'.fills[i])]_vars

\* The number of orders resting on a book given by its two sides.
NOrders(bids, asks) == Len(Flat(bids)) + Len(Flat(asks))

\* The order of a fill that the call of the fill brought: the taker of a
\* market sweep, and of the two orders of a match the one placed last.
Incoming(f) ==
    IF f.taker.Placed > f.maker.Placed THEN f.taker ELSE f.maker

\* C35: PlaceOrder returns for every book and order: each step of Match and
\* of the market sweep takes at least one order off the book or leaves the
\* incoming order without quantity, so a call makes at most one trade more
\* than there were resting orders.
C35_EachStepRemoves ==
    /\ [](PlacedOnBook =>
            \A i \in DOMAIN last.fills :
                \/ NOrders(BidsLeftBy(i), AsksLeftBy(i))
                      < NOrders(last.fills[i].bids, last.fills[i].asks)
                \/ Incoming(last.fills[i]).Quantity = 0)
    /\ [][(EngineCalled /\ last'.op = "place"
              /\ last'.asset \in DOMAIN Books)
            => Len(last'.fills)
                 <= NOrders(Books[last'.asset].Bids,
                            Books[last'.asset].Asks) + 1]_vars

\* C35's case: a call made as many trades as there were resting orders,
\* the last of them leaving the resting order on the book and the incoming
\* order without quantity.
C35_Witness ==
    /\ PlacedOnBook
    /\ Len(last.fills) >= 2
    /\ last.fills[Len(last.fills)].maker.Quantity > 0
    /\ last.fills[Len(last.fills)].qty > 0
    /\ Incoming(last.fills[Len(last.fills)]).Quantity = 0
    /\ NOrders(Books[last.asset].Bids, Books[last.asset].Asks) = 1

\* C40: the uint64 counters nBuyOrders, nSellOrders, buyQuantity and
\* sellQuantity never wrap below zero (a wrapped value is kept as the
\* negative number it stands for): neither those of the book a call
\* worked on nor those of the books the engine keeps.
C40_CountersNeverWrap ==
    /\ last.local.nBuyOrders >= 0
    /\ last.local.nSellOrders >= 0
    /\ last.local.buyQuantity >= 0
    /\ last.local.sellQuantity >= 0
    /\ \A a \in DOMAIN Books :
          /\ Books[a].nBuyOrders >= 0
          /\ Books[a].nSellOrders >= 0
          /\ Books[a].buyQuantity >= 0
          /\ Books[a].sellQuantity >= 0

\* ------------------------------------------------------------- wire format
\* A byte string is the sequence of its bytes; Go's msg[a:b] is
\* SubSeq(msg, a + 1, b) and msg[i] is msg[i + 1].
MaxUint8 == 255
MAX_RECV_SIZE == 4096
BaseMessageHeaderLen == 2
NewOrderMessageHeaderLen == 26
CancelOrderMessageHeaderLen == 18
Heartbeat == 0
NewOrder == 1
CancelOrderType == 2
\* The discriminant the client's sendLog writes; parseMessage has no case
\* for it.
LogBookType == 3

ErrHeaderTooShort == "message too short to contain header"
ErrInvalidMessageType == "invalid message type"
ErrMessageTooShort == "message too short for specified username length"

\* uint8 addition: NewOrderMessageHeaderLen + m.UsernameLen is an addition
\* of uint8 values, the constant taking the type of the other operand.
U8Add(a, b) == (a + b) % (MaxUint8 + 1)

\* binary.BigEndian.PutUint16, PutUint64 (n bytes) and Uint16, Uint64.
RECURSIVE PutUint(_, _)
PutUint(v, n) ==
    IF n = 0 THEN <<>> ELSE Append(PutUint(v \div 256, n - 1), v % 256)

RECURSIVE Uint(_)
Uint(b) ==
    IF b = <<>> THEN 0
    ELSE 256 * Uint(SubSeq(b, 1, Len(b) - 1)) + b[Len(b)]

\* math.Float64bits, big-endian, of the prices of the model: the IEEE 754
\* double of 0, 1, 2 and 3.
Float64bits(price) ==
    CASE price = 0 -> <<0, 0, 0, 0, 0, 0, 0, 0>>
      [] price = 1 -> <<63, 240, 0, 0, 0, 0, 0, 0>>
      [] price = 2 -> <<64, 0, 0, 0, 0, 0, 0, 0>>
      [] price = 3 -> <<64, 8, 0, 0, 0, 0, 0, 0>>

\* math.Float64frombits: -1 stands for every other float.
Float64frombits(b) ==
    IF \E p \in 0..3 : Float64bits(p) = b
    THEN CHOOSE p \in 0..3 : Float64bits(p) = b
    ELSE -1

\* copy(dst, src) into a zeroed dst of n bytes: src cut or padded to n.
Copied(src, n) ==
    [i \in 1..n |-> IF i <= Len(src) THEN src[i] ELSE 0]

\* The client's sendPlaceOrder: the bytes it writes to the connection.
sendPlaceOrder(owner, asset, orderType, ticker, price, qty, side) ==
    PutUint(NewOrder, 2) \o PutUint(asset, 2) \o PutUint(orderType, 2)
        \o Copied(ticker, 4) \o Float64bits(price) \o PutUint(qty, 8)
        \o <<side, Len(owner) % (MaxUint8 + 1)>> \o owner

\* What a parser returns: a message, an error, or a run-time panic.
Parsed(m) == [kind |-> "message", message |-> m, err |-> <<>>]
Failed(err) == [kind |-> "error", message |-> <<>>, err |-> err]
Panic == [kind |-> "panic", message |-> <<>>, err |-> <<>>]

\* parseNewOrder. The slices msg[0:2] .. msg[16:24] are within the capacity
\* of the receive buffer whatever len(msg) is; msg[24] and msg[25] are index
\* expressions and panic when len(msg) does not reach them. The bounds of
\* msg[26 : 26+m.UsernameLen] are checked too: a high bound below the low
\* one panics.
parseNewOrder(msg) ==
    IF Len(msg) <= 25
    THEN Panic
    ELSE IF Len(msg) < U8Add(NewOrderMessageHeaderLen, msg[26])
    THEN Failed(ErrMessageTooShort)
    ELSE IF U8Add(26, msg[26]) < 26 \/ U8Add(26, msg[26]) > MAX_RECV_SIZE
    THEN Panic
    ELSE Parsed([TypeOf |-> NewOrder,
                 AssetType |-> Uint(SubSeq(msg, 1, 2)),
                 OrderType |-> Uint(SubSeq(msg, 3, 4)),
                 Ticker |-> SubSeq(msg, 5, 8),
                 LimitPrice |-> Float64frombits(SubSeq(msg, 9, 16)),
                 Quantity |-> Uint(SubSeq(msg, 17, 24)),
                 Side |-> msg[25],
                 UsernameLen |-> msg[26],
                 Username |-> SubSeq(msg, 27, U8Add(26, msg[26]))])

parseCancelOrder(msg) ==
    IF Len(msg) < CancelOrderMessageHeaderLen
    THEN Failed(ErrMessageTooShort)
    ELSE Parsed([TypeOf |-> CancelOrderType,
                 AssetType |-> Uint(SubSeq(msg, 1, 2)),
                 OrderUUID |-> SubSeq(msg, 3, 16)])

parseMessage(msg) ==
    IF Len(msg) < BaseMessageHeaderLen
    THEN Failed(ErrHeaderTooShort)
    ELSE CASE Uint(SubSeq(msg, 1, 2)) = NewOrder ->
                parseNewOrder(SubSeq(msg, 3, Len(msg)))
           [] Uint(SubSeq(msg, 1, 2)) = CancelOrderType ->
                parseCancelOrder(SubSeq(msg, 3, Len(msg)))
           [] OTHER -> Failed(ErrInvalidMessageType)

\* ----------------------------------------------------------------- reports
ExecutionReport == 0
ErrorReport == 1
reportFixedHeaderLen == 53

\* A Report with Go's zero value in every field.
ZeroReport ==
    [MessageType |-> ExecutionReport, AssetType |-> Equities, Side |-> Buy,
     Timestamp |-> 0, Quantity |-> 0, Price |-> 0,
     CounterpartyLen |-> 0, ErrStrLen |-> 0,
     Ticker |-> <<>>, UUID |-> <<>>, Err |-> <<>>, Counterparty |-> <<>>]

\* Serialize, lines 177-184: the bytes after the header. The error string is
\* copied to offset 53 and the counterparty to offset 53 + ErrStrLen, each
\* when its length field is not 0.
Body(r) ==
    [i \in 1..(Len(r.Err) + Len(r.Counterparty)) |->
        IF /\ r.CounterpartyLen > 0
           /\ i > r.ErrStrLen
           /\ i - r.ErrStrLen <= Len(r.Counterparty)
        THEN r.Counterparty[i - r.ErrStrLen]
        ELSE IF r.ErrStrLen > 0 /\ i <= Len(r.Err)
        THEN r.Err[i]
        ELSE 0]

\* Report.Serialize. r.Ticker[:4] and r.UUID[:16] are slice expressions of
\* strings: they panic when the string is shorter than the high bound.
Serialize(r) ==
    IF Len(r.Ticker) < 4 \/ Len(r.UUID) < 16
    THEN Panic
    ELSE [kind |-> "bytes",
          message |-> <<r.MessageType, r.AssetType, r.Side>>
                        \o PutUint(r.Timestamp, 8) \o PutUint(r.Quantity, 8)
                        \o Float64bits(r.Price)
                        \o PutUint(r.CounterpartyLen, 2)
                        \o PutUint(r.ErrStrLen, 4)
                        \o Copied(SubSeq(r.Ticker, 1, 4), 4)
                        \o Copied(SubSeq(r.UUID, 1, 16), 16)
                        \o Body(r),
          err |-> <<>>]

\* The text fmt.Sprintf("%w", err) makes of an error: some bytes, not none.
ErrStr == <<37, 33, 119>>

\* generateWireErrorReports: a Report with MessageType, Timestamp, ErrStrLen
\* and Err set, every other field left at its zero value.
ErrorReportOf(timestamp) ==
    [ZeroReport EXCEPT !.MessageType = ErrorReport, !.Timestamp = timestamp,
                       !.ErrStrLen = Len(ErrStr), !.Err = ErrStr]

generateWireErrorReports == Serialize(ErrorReportOf(1))

\* ------------------------------------------------------ frames on the wire
\* A username of n bytes, and the tickers a client names (one of them
\* shorter than the four bytes of the field).
Username(n) == [i \in 1..n |-> 97 + (i % 26)]
Tickers == {<<65, 65, 80, 76>>, <<90>>}

\* The fields of a NewOrder message the client encoded.
Encoded(owner, asset, orderType, ticker, price, qty, side) ==
    [kind |-> "order",
     AssetType |-> asset, OrderType |-> orderType,
     Ticker |-> Copied(ticker, 4), LimitPrice |-> price, Quantity |-> qty,
     Side |-> side, Username |-> owner]

\* The same fields of a parsed message.
Decoded(m) ==
    [kind |-> "order",
     AssetType |-> m.AssetType, OrderType |-> m.OrderType,
     Ticker |-> m.Ticker, LimitPrice |-> m.LimitPrice,
     Quantity |-> m.Quantity, Side |-> m.Side, Username |-> m.Username]

\* Whole frames of each type: a NewOrder frame for every username length, a
\* CancelOrder frame (header, asset type, sixteen bytes of UUID), and frames
\* with a discriminant parseMessage has no case for.
WholeFrames ==
    {sendPlaceOrder(Username(n), Equities, LimitOrder, <<65, 65, 80, 76>>,
                    1, 1, Sell) : n \in 0..MaxUint8}
      \cup {PutUint(CancelOrderType, 2) \o PutUint(Equities, 2)
              \o [i \in 1..16 |-> 48 + i]}
      \cup {PutUint(t, 2) \o <<0>> : t \in {Heartbeat, LogBookType}}

\* A client encodes an order and the server reads exactly its bytes.
ClientSendsOrder ==
    /\ sent = NoFrame
    /\ wire = NoFrame
    /\ \E n \in 0..MaxUint8, asset \in AssetTypes, orderType \in OrderTypes,
          ticker \in Tickers, price \in Prices, qty \in Quantities,
          side \in Sides :
        /\ buf' = sendPlaceOrder(Username(n), asset, orderType, ticker,
                                 price, qty, side)
        /\ sent' = Encoded(Username(n), asset, orderType, ticker,
                           price, qty, side)
    /\ UNCHANGED <<parsed, wire, vars, svars, wvars, qvars>>

\* conn.Read returns the first n bytes of some frame.
ReadBytes ==
    /\ sent = NoFrame
    /\ wire = NoFrame
    /\ \E frame \in WholeFrames :
        \E n \in 0..Len(frame) :
            buf' = SubSeq(frame, 1, n)
    /\ sent' = [kind |-> "bytes"]
    /\ UNCHANGED <<parsed, wire, vars, svars, wvars, qvars>>

\* handleConnection, line 344: parseMessage(buffer[:n]).
ParseBuffer ==
    /\ sent # NoFrame
    /\ parsed = NoFrame
    /\ parsed' = parseMessage(buf)
    /\ UNCHANGED <<buf, sent, wire, vars, svars, wvars, qvars>>

\* The reports the server builds: the tickers and order ids are shorter
\* than their fields, as long, or longer; the length fields are those of
\* the strings, as generateWireTradeReports and generateWireErrorReports
\* set them.
ReportTickers == {<<>>, <<90>>, <<65, 65, 80, 76>>, <<65, 65, 80, 76, 88>>}
ReportUUIDs == {[i \in 1..n |-> 48 + i] : n \in {0, 15, 16, 17}}
Reports ==
    {[ZeroReport EXCEPT
         !.MessageType = t, !.Side = side, !.Timestamp = 1,
         !.Quantity = qty, !.Price = price,
         !.CounterpartyLen = Len(counterparty), !.ErrStrLen = Len(err),
         !.Ticker = ticker, !.UUID = uuid,
         !.Err = err, !.Counterparty = counterparty] :
        t \in {ExecutionReport, ErrorReport}, side \in Sides,
        qty \in Quantities, price \in Prices,
        ticker \in ReportTickers, uuid \in ReportUUIDs,
        err \in {<<>>, ErrStr}, counterparty \in {<<>>, <<66>>}}

\* A reporter serializes a report before it writes it to the connection.
SerializeReport ==
    /\ wire = NoFrame
    /\ sent = NoFrame
    /\ \E r \in Reports :
        wire' = [kind |-> "report", report |-> r, out |-> Serialize(r)]
    /\ UNCHANGED <<buf, sent, parsed, vars, svars, wvars, qvars>>

ParseNext ==
    \/ ClientSendsOrder
    \/ ReadBytes
    \/ ParseBuffer
    \/ SerializeReport

ParseSpec == Init /\ [][ParseNext]_allVars

\* C19: a NewOrder frame as the client encodes it, with a username of 0 to
\* 255 bytes and read whole, parses to a NewOrder message with the encoded
\* asset type, order type, ticker, limit price, quantity, side and username.
C19_NewOrderRoundTrip ==
    (sent.kind = "order" /\ parsed # NoFrame) =>
        /\ parsed.kind = "message"
        /\ parsed.message.TypeOf = NewOrder
        /\ Decoded(parsed.message) = sent

\* The frames C20 calls too short for their body: a NewOrder or CancelOrder
\* frame whose body is shorter than the fixed part, or a NewOrder frame
\* shorter than the username length it declares.
TooShortForBody(frame) ==
    /\ Len(frame) >= BaseMessageHeaderLen
    /\ \/ /\ Uint(SubSeq(frame, 1, 2)) = CancelOrderType
          /\ Len(frame) - 2 < CancelOrderMessageHeaderLen
       \/ /\ Uint(SubSeq(frame, 1, 2)) = NewOrder
          /\ \/ Len(frame) - 2 < NewOrderMessageHeaderLen
             \/ Len(frame) - 2 < NewOrderMessageHeaderLen + frame[28]

\* C20: parse of any buffer returns a message or one of the three errors,
\* never an out-of-bounds access, and a frame too short for its body yields
\* the error for that.
C20_ParseIsTotal ==
    parsed # NoFrame =>
        /\ parsed.kind \in {"message", "error"}
        /\ parsed.kind = "error" =>
              parsed.err \in {ErrHeaderTooShort, ErrInvalidMessageType,
                              ErrMessageTooShort}
        /\ TooShortForBody(buf) => parsed = Failed(ErrMessageTooShort)

\* C21: serializing a report whose ticker is shorter than 4 bytes or whose
\* order id is shorter than 16 bytes (the empty ones of an error report
\* too) succeeds: the result is the 53-byte header, with the field
\* left-justified and padded with zero bytes, followed by the two strings.
C21_ShortFieldsArePadded ==
    (/\ wire # NoFrame
     /\ \/ Len(wire.report.Ticker) < 4
        \/ Len(wire.report.UUID) < 16) =>
        /\ wire.out.kind = "bytes"
        /\ Len(wire.out.message) = reportFixedHeaderLen
              + Len(wire.report.Err) + Len(wire.report.Counterparty)
        /\ SubSeq(wire.out.message, 34, 37) = Copied(wire.report.Ticker, 4)
        /\ SubSeq(wire.out.message, 38, 53) = Copied(wire.report.UUID, 16)

\* ---------------------------------------------------------------- Server
\* conn.RemoteAddr().String() of each connection, and the usernames its
\* client puts into its orders: a name of its own, or its own address.
Addrs == <<<<49, 58, 49>>, <<50, 58, 50>>, <<51, 58, 51>>>>
RemoteAddr(c) == Addrs[c]
ConnAt(address) == CHOOSE c \in Conns : RemoteAddr(c) = address
ClientNames(c) == {<<96 + c>>, RemoteAddr(c)}

\* The frames the client of connection c sends: an order, a cancellation,
\* the log request of sendLog, and a NewOrder header without a body.
ClientFrames(c) ==
    {sendPlaceOrder(u, Equities, LimitOrder, <<65, 65, 80, 76>>, 1, 1, Buy) :
        u \in ClientNames(c)}
      \cup {PutUint(CancelOrderType, 2) \o PutUint(Equities, 2)
              \o [i \in 1..16 |-> 48 + i],
            PutUint(LogBookType, 2),
            PutUint(NewOrder, 2)}

\* What the reporters read and write: the session map, the sockets, the
\* bytes written to them; err is the error being returned.
Net ==
    [sessions |-> clientSessions, socket |-> socket, written |-> written,
     failed |-> hist.failedWrites, err |-> FALSE, crashed |-> FALSE,
     mutex |-> hist.mutex]

\* s.clientSessionsLock, a sync.Mutex, as the goroutine running on n uses
\* it: Lock on a mutex the goroutine holds is recorded (it would block for
\* good), and so is an access to s.clientSessions without the mutex.
Lock(n) ==
    [n EXCEPT !.mutex.relocked = @ \/ n.mutex.locked,
              !.mutex.locked = TRUE]

Unlock(n) == [n EXCEPT !.mutex.locked = FALSE]

Touch(n) == [n EXCEPT !.mutex.unguarded = @ \/ ~n.mutex.locked]

\* addClientSession.
addClientSession(n, conn) ==
    Unlock([Touch(Lock(n)) EXCEPT !.sessions = @ \cup {RemoteAddr(conn)}])

\* The body deleteClientSession and deleteClientSessionLockFree share: the
\* lookup, conn.Close and the delete.
Removed(n, address) ==
    IF address \in n.sessions
    THEN [n EXCEPT !.sessions = @ \ {address},
                   !.socket[ConnAt(address)] = "closed"]
    ELSE n

\* The outcomes of conn.Write on the session of an owner: it can fail once
\* the client has closed its end.
WriteOutcomes(owner) ==
    IF owner \in clientSessions /\ ConnAt(owner) \in hungUp
    THEN {TRUE, FALSE}
    ELSE {TRUE}

LeftOpen(n, address) == n
deleteClientSession(n, address) ==
    Unlock(Removed(Touch(Lock(n)), address))

KeptSession(n, address) == n
deleteClientSessionLockFree(n, address) ==
    Removed(Touch(n), address)

\* client.conn.Write(report) and what follows it in each reporter.
WriteRelocking(n, address, report, ok) ==
    IF ok
    THEN [n EXCEPT !.written[ConnAt(address)] = Append(@, report)]
    ELSE [deleteClientSession(n, address) EXCEPT
              !.failed = @ \cup {ConnAt(address)}, !.err = TRUE]
Write(n, address, report, ok) ==
    IF ok
    THEN [n EXCEPT !.written[ConnAt(address)] = Append(@, report)]
    ELSE [deleteClientSessionLockFree(n, address) EXCEPT
              !.failed = @ \cup {ConnAt(address)}, !.err = TRUE]

ReportCounterParty(n, trade, ok) ==
    IF n.err THEN n ELSE Write(n, trade.CounterParty, "ExecutionReport", ok)

\* Server.ReportTrade: both sessions are looked up by the owner of the
\* order, then the two reports are written.
TradeReported(n, trade, ok1, ok2) ==
    IF trade.Party \notin n.sessions \/ trade.CounterParty \notin n.sessions
    THEN [n EXCEPT !.err = TRUE]
    ELSE ReportCounterParty(Write(n, trade.Party, "ExecutionReport", ok1),
                            trade, ok2)

ReportTrade(n, trade, ok1, ok2) ==
    Unlock(TradeReported(Touch(Lock(n)), trade, ok1, ok2))

\* Server.ReportOrderPlaced: generateWireOrderPlacedReport is taken to
\* return the bytes of the ack.
Reported(n, clientAddress, report, ok) ==
    IF clientAddress \notin n.sessions
    THEN [n EXCEPT !.err = TRUE]
    ELSE Write(n, clientAddress, report, ok)

ReportOrderPlaced(n, clientAddress, ok) ==
    Unlock(Reported(Touch(Lock(n)), clientAddress, "OrderPlaced", ok))

\* Server.ReportError.
ReportError(n, clientAddress, ok) ==
    IF generateWireErrorReports = Panic
    THEN [n EXCEPT !.crashed = TRUE]
    ELSE Unlock(Reported(Touch(Lock(n)), clientAddress, "ErrorReport", ok))

\* The state the reporters leave.
Left(n) ==
    /\ clientSessions' = n.sessions
    /\ socket' = n.socket
    /\ written' = n.written
    /\ crashed' = n.crashed

\* --- Run: the accept loop
AcceptSelect ==
    /\ ~crashed
    /\ acceptLoop = "select"
    /\ acceptLoop' = IF dying THEN "returned" ELSE "accept"
    /\ UNCHANGED <<clientSessions, socket, hungUp, unread, written, tasks,
                   clientMessages, workers, setup, sessionHandlers, acks,
                   dying, crashed, nFrames, placed, hist, vars, pvars,
                   wvars, qvars>>

\* A client connects (connections are numbered in the order they are
\* accepted): listener.Accept returns, the session is added and the
\* connection handed to the pool.
Accept ==
    /\ ~crashed
    /\ acceptLoop = "accept"
    /\ Len(tasks) < TASK_CHAN_SIZE
    /\ \E c \in Conns :
        /\ socket[c] = "none"
        /\ \A b \in 1..(c - 1) : socket[b] # "none"
        /\ Left(addClientSession([Net EXCEPT !.socket[c] = "open"], c))
        /\ hist' = [hist EXCEPT !.mutex =
              addClientSession([Net EXCEPT !.socket[c] = "open"], c).mutex]
        /\ tasks' = Append(tasks, c)
    /\ acceptLoop' = "select"
    /\ UNCHANGED <<hungUp, unread, clientMessages, workers, setup,
                   sessionHandlers, acks, dying, nFrames, placed, vars,
                   pvars,
                   wvars, qvars>>

\* --- WorkerPool.Setup: one more worker while fewer than n run; the
\* supervisor returns when the tomb is dying.
Setup ==
    /\ ~crashed
    /\ setup = "running"
    /\ IF dying
       THEN /\ setup' = "returned"
            /\ UNCHANGED workers
       ELSE /\ \E w \in 1..NWorkers :
                /\ workers[w].pc = "unstarted"
                /\ \A v \in 1..(w - 1) : workers[v].pc # "unstarted"
                /\ workers' = [workers EXCEPT ![w].pc = "range"]
            /\ UNCHANGED setup
    /\ UNCHANGED <<clientSessions, socket, hungUp, unread, written, tasks,
                   clientMessages, sessionHandlers, acks, acceptLoop, dying,
                   crashed, nFrames, placed, hist, vars, pvars,
                   wvars, qvars>>

Idle == [pc |-> "range", conn |-> 0, at |-> 0, message |-> [kind |-> "none"]]

\* --- WorkerPool.worker and Server.handleConnection
\* A worker receives a task (of the workers waiting, which are alike, the
\* first); handleConnection returns at once when the tomb is dying, and
\* calls conn.Read otherwise.
TakeTask ==
    /\ ~crashed
    /\ tasks # <<>>
    /\ \E w \in 1..NWorkers :
        /\ workers[w].pc = "range"
        /\ \A v \in 1..(w - 1) : workers[v].pc # "range"
        /\ workers' = IF dying
                      THEN workers
                      ELSE [workers EXCEPT ![w].pc = "reading",
                                           ![w].conn = Head(tasks)]
    /\ tasks' = Tail(tasks)
    /\ UNCHANGED <<clientSessions, socket, hungUp, unread, written,
                   clientMessages, setup, sessionHandlers, acks, acceptLoop,
                   dying, crashed, nFrames, placed, hist, vars, pvars,
                   wvars, qvars>>

\* The steps of handleConnection after a frame has parsed, in its order.
ResubmitFirst == <<"AddTask", "send">>
handleConnectionSteps == <<"send", "AddTask">>

\* The worker after one of those steps.
Stepped(worker) ==
    IF worker.at = Len(handleConnectionSteps)
    THEN Idle
    ELSE [worker EXCEPT !.at = @ + 1]

\* handleConnection when parseMessage returned r for the frame read: a
\* panic ends the process, an error deletes the session, a message goes on.
Framed(w, frame, r) ==
    /\ Left(IF r.kind = "error"
            THEN deleteClientSession(Net, RemoteAddr(workers[w].conn))
            ELSE [Net EXCEPT !.crashed = (r.kind = "panic")])
    /\ hist' = [hist EXCEPT
          !.failedParses =
              IF r.kind = "error" THEN @ \cup {workers[w].conn} ELSE @,
          !.mutex =
              IF r.kind = "error"
              THEN deleteClientSession(Net, RemoteAddr(workers[w].conn)).mutex
              ELSE @]
    /\ workers' = [workers EXCEPT ![w] =
                    IF r.kind = "message"
                    THEN [pc |-> "step", conn |-> @.conn, at |-> 1,
                          message |->
                            [kind |-> "message",
                             clientAddress |-> RemoteAddr(@.conn),
                             message |-> r.message, id |-> frame.id]]
                    ELSE IF r.kind = "error" THEN Idle ELSE @]

\* conn.Read returns a frame.
Read ==
    /\ ~crashed
    /\ \E w \in 1..NWorkers :
        /\ workers[w].pc = "reading"
        /\ socket[workers[w].conn] = "open"
        /\ unread[workers[w].conn] # <<>>
        /\ Framed(w, Head(unread[workers[w].conn]),
                  parseMessage(Head(unread[workers[w].conn]).bytes))
        /\ unread' = [unread EXCEPT ![workers[w].conn] = Tail(@)]
    /\ UNCHANGED <<hungUp, tasks, clientMessages, setup, sessionHandlers,
                   acks, acceptLoop, dying, nFrames, placed, vars, pvars,
                   wvars, qvars>>

\* conn.Read returns an error: the client is gone and nothing is left to
\* read, or the socket was closed under the reader.
ReadError ==
    /\ ~crashed
    /\ \E w \in 1..NWorkers :
        /\ workers[w].pc = "reading"
        /\ \/ socket[workers[w].conn] = "closed"
           \/ /\ workers[w].conn \in hungUp
              /\ unread[workers[w].conn] = <<>>
        /\ Left(deleteClientSession(Net, RemoteAddr(workers[w].conn)))
        /\ hist' = [hist EXCEPT
              !.failedReads = @ \cup {workers[w].conn},
              !.mutex =
                  deleteClientSession(Net, RemoteAddr(workers[w].conn)).mutex]
        /\ workers' = [workers EXCEPT ![w] = Idle]
    /\ UNCHANGED <<hungUp, unread, tasks, clientMessages, setup,
                   sessionHandlers, acks, acceptLoop, dying, nFrames, placed,
                   vars, pvars,
                   wvars, qvars>>

\* s.clientMessages <- ClientMessage{...}
Enqueue ==
    /\ ~crashed
    /\ Len(clientMessages) < ClientMessagesSize
    /\ \E w \in 1..NWorkers :
        /\ workers[w].pc = "step"
        /\ handleConnectionSteps[workers[w].at] = "send"
        /\ clientMessages' = Append(clientMessages, workers[w].message)
        /\ workers' = [workers EXCEPT ![w] = Stepped(@)]
    /\ UNCHANGED <<clientSessions, socket, hungUp, unread, written, tasks,
                   setup, sessionHandlers, acks, acceptLoop, dying, crashed,
                   nFrames, placed, hist, vars, pvars,
                   wvars, qvars>>

\* s.pool.AddTask(conn): the connection goes back to the pool.
Resubmit ==
    /\ ~crashed
    /\ Len(tasks) < TASK_CHAN_SIZE
    /\ \E w \in 1..NWorkers :
        /\ workers[w].pc = "step"
        /\ handleConnectionSteps[workers[w].at] = "AddTask"
        /\ tasks' = Append(tasks, workers[w].conn)
        /\ workers' = [workers EXCEPT ![w] = Stepped(@)]
    /\ UNCHANGED <<clientSessions, socket, hungUp, unread, written,
                   clientMessages, setup, sessionHandlers, acks, acceptLoop,
                   dying, crashed, nFrames, placed, hist, vars, pvars,
                   wvars, qvars>>

\* --- Server.sessionHandler
\* case <-t.Dying()
SessionHandlerReturns ==
    /\ ~crashed
    /\ dying
    /\ \E d \in SessionHandlers :
        /\ sessionHandlers[d].pc = "select"
        /\ sessionHandlers' = [sessionHandlers EXCEPT ![d].pc = "returned"]
    /\ UNCHANGED <<clientSessions, socket, hungUp, unread, written, tasks,
                   clientMessages, workers, setup, acks, acceptLoop, dying,
                   crashed, nFrames, placed, hist, vars, pvars,
                   wvars, qvars>>

\* case message := <-s.clientMessages: handleMessage begins, and with it
\* the engine operation the message asks for.
Receive ==
    /\ ~crashed
    /\ clientMessages # <<>>
    /\ \E d \in SessionHandlers :
        /\ sessionHandlers[d].pc = "select"
        /\ sessionHandlers' =
              [sessionHandlers EXCEPT ![d] =
                  [pc |-> "engine", message |-> Head(clientMessages)]]
    /\ clientMessages' = Tail(clientMessages)
    /\ hist' = [hist EXCEPT
                  !.dispatched[ConnAt(Head(clientMessages).clientAddress)] =
                      Append(@, Head(clientMessages).id),
                  !.atSignal = @ \ {Head(clientMessages).id}]
    /\ UNCHANGED <<clientSessions, socket, hungUp, unread, written, tasks,
                   workers, setup, acks, acceptLoop, dying, crashed, nFrames,
                   placed, vars, pvars,
                   wvars, qvars>>

\* --- Server.handleMessage
\* The owners Engine.PlaceOrder may match the order of m with: no trade
\* (<<>>), or a trade with an order placed before.
Makers(m, engineErr) ==
    IF m.message.TypeOf = NewOrder /\ ~engineErr
    THEN {<<>>} \cup placed
    ELSE {<<>>}

\* NewOrderMessage.Order: the owner of the order is the username of the
\* message (a cancellation has none).
OwnerOf(m) ==
    IF m.message.TypeOf = NewOrder THEN m.message.Username ELSE <<>>

\* handleMessage returns. engineErr: the engine's own error; n: the state
\* ReportTrade left, its error joined into the one the engine returns;
\* after: the state ReportError left, if it was called. The goroutine with
\* ReportOrderPlaced is started whatever PlaceOrder returned.
Finished(d, m, engineErr, maker, n, after) ==
    /\ Left(after)
    /\ acks' = IF m.message.TypeOf = NewOrder /\ ~after.crashed
               THEN acks \cup {[clientAddress |-> m.clientAddress,
                                id |-> m.id]}
               ELSE acks
    /\ placed' = IF m.message.TypeOf = NewOrder /\ ~engineErr
                 THEN placed \cup {m.message.Username}
                 ELSE placed
    /\ sessionHandlers' =
          [sessionHandlers EXCEPT ![d] =
              IF after.crashed
              THEN @
              ELSE [pc |-> "select", message |-> [kind |-> "none"]]]
    /\ hist' = [hist EXCEPT
          !.failedWrites = after.failed,
          !.mutex = after.mutex,
          !.handled = [kind |-> "handled", TypeOf |-> m.message.TypeOf,
                       clientAddress |-> m.clientAddress,
                       id |-> m.id,
                       live |-> (m.clientAddress \in clientSessions
                                   /\ ConnAt(m.clientAddress) \notin hungUp),
                       err |-> (engineErr \/ n.err),
                       reports |-> SubSeq(after.written[ConnAt(m.clientAddress)],
                                          Len(written[ConnAt(m.clientAddress)]) + 1,
                                          Len(after.written[ConnAt(m.clientAddress)]))],
          !.trade = IF maker = <<>>
                    THEN @
                    ELSE [kind |-> "trade",
                          Party |-> m.message.Username,
                          CounterParty |-> maker,
                          live |-> {c \in Conns \ hungUp :
                                      RemoteAddr(c) \in clientSessions},
                          reported |-> {c \in Conns :
                              Len(n.written[c]) > Len(written[c])}]]

\* The engine has returned to handleMessage with the state n.
Returning(d, m, engineErr, maker, n, ok) ==
    Finished(d, m, engineErr, maker, n,
             IF engineErr \/ n.err
             THEN ReportError(n, m.clientAddress, ok)
             ELSE n)

\* handleMessage from the return of the engine operation on: PlaceOrder
\* (with the trade it reported, if any) or CancelOrder.
Handle ==
    /\ ~crashed
    /\ \E d \in SessionHandlers :
        /\ sessionHandlers[d].pc = "engine"
        /\ \E engineErr \in BOOLEAN :
            \E maker \in Makers(sessionHandlers[d].message, engineErr) :
              \E ok1 \in WriteOutcomes(OwnerOf(sessionHandlers[d].message)),
                 ok2 \in WriteOutcomes(maker),
                 ok3 \in WriteOutcomes(sessionHandlers[d].message.clientAddress) :
                Returning(d, sessionHandlers[d].message, engineErr, maker,
                          IF maker = <<>>
                          THEN Net
                          ELSE ReportTrade(Net,
                                  [Party |-> OwnerOf(sessionHandlers[d].message),
                                   CounterParty |-> maker], ok1, ok2),
                          ok3)
    /\ UNCHANGED <<hungUp, unread, tasks, clientMessages, workers, setup,
                   acceptLoop, dying, nFrames, vars, pvars,
                   wvars, qvars>>

\* The goroutine of handleMessage: ReportOrderPlaced returned with n, and
\* ReportError is called when it returned an error.
Acked(g, after) ==
    /\ Left(after)
    /\ hist' = [hist EXCEPT !.failedWrites = after.failed,
                             !.mutex = after.mutex]
    /\ acks' = acks \ {g}

RunAck ==
    /\ ~crashed
    /\ \E g \in acks :
        \E ok \in WriteOutcomes(g.clientAddress) :
            Acked(g, IF ReportOrderPlaced(Net, g.clientAddress, ok).err
                     THEN ReportError(ReportOrderPlaced(Net, g.clientAddress, ok),
                                      g.clientAddress, ok)
                     ELSE ReportOrderPlaced(Net, g.clientAddress, ok))
    /\ UNCHANGED <<hungUp, unread, tasks, clientMessages, workers, setup,
                   sessionHandlers, acceptLoop, dying, nFrames, placed,
                   vars, pvars,
                   wvars, qvars>>

\* --- the clients and the operator
ClientSends ==
    /\ ~crashed
    /\ nFrames < MaxFrames
    /\ \E c \in Conns :
        /\ socket[c] = "open"
        /\ c \notin hungUp
        /\ \E bytes \in ClientFrames(c) :
            unread' = [unread EXCEPT ![c] =
                          Append(@, [bytes |-> bytes, id |-> nFrames + 1])]
    /\ nFrames' = nFrames + 1
    /\ UNCHANGED <<clientSessions, socket, hungUp, written, tasks,
                   clientMessages, workers, setup, sessionHandlers, acks,
                   acceptLoop, dying, crashed, placed, hist, vars, pvars,
                   wvars, qvars>>

ClientCloses ==
    /\ ~crashed
    /\ Cardinality(hungUp) < MaxHangUps
    /\ \E c \in Conns :
        /\ socket[c] # "none"
        /\ c \notin hungUp
        /\ hungUp' = hungUp \cup {c}
    /\ UNCHANGED <<clientSessions, socket, unread, written, tasks,
                   clientMessages, workers, setup, sessionHandlers, acks,
                   acceptLoop, dying, crashed, nFrames, placed, hist, vars,
                   pvars,
                   wvars, qvars>>

\* SIGTERM or SIGINT: the context handed to Run is cancelled.
Signal ==
    /\ ~crashed
    /\ ~dying
    /\ dying' = TRUE
    /\ hist' = [hist EXCEPT !.atSignal =
                  {clientMessages[i].id : i \in DOMAIN clientMessages}]
    /\ UNCHANGED <<clientSessions, socket, hungUp, unread, written, tasks,
                   clientMessages, workers, setup, sessionHandlers, acks,
                   acceptLoop, crashed, nFrames, placed, vars, pvars,
                   wvars, qvars>>

\* The steps the server takes by itself.
ServerStep ==
    \/ AcceptSelect
    \/ Setup
    \/ TakeTask
    \/ Read
    \/ ReadError
    \/ Enqueue
    \/ Resubmit
    \/ SessionHandlerReturns
    \/ Receive
    \/ Handle
    \/ RunAck

ServerNext ==
    \/ ServerStep
    \/ Accept
    \/ ClientSends
    \/ ClientCloses
    \/ Signal

ServerSpec == Init /\ [][ServerNext]_allVars

\* ------------------------------------------------------ WorkerPool alone
\* The goroutines inside pool.worker, and those inside work.
Running == {g \in 1..MaxGoroutines : goroutines[g].pc \in {"range", "work"}}
Working == {g \in 1..MaxGoroutines : goroutines[g].pc = "work"}

\* Setup, default case: activeWorkers < pool.n, and t.Go starts the
\* closure (goroutines are numbered in the order they are started).
SupervisorGo ==
    /\ supervisor.pc = "select"
    /\ ~tombDying
    /\ activeWorkers < pool.n
    /\ \E g \in 1..MaxGoroutines :
        /\ goroutines[g].pc = "unstarted"
        /\ \A h \in 1..(g - 1) : goroutines[h].pc # "unstarted"
        /\ goroutines' = [goroutines EXCEPT ![g].pc = "range"]
    /\ supervisor' = [supervisor EXCEPT !.pc = "load"]
    /\ UNCHANGED <<pool, madeBy, activeWorkers, tombDying, nTasks, vars,
                   pvars, svars,
                   qvars>>

\* activeWorkers++ in Setup: the load, then the store. Nothing orders them
\* with the activeWorkers-- of the closures.
SupervisorLoad ==
    /\ supervisor.pc = "load"
    /\ supervisor' = [pc |-> "store", reg |-> activeWorkers]
    /\ UNCHANGED <<pool, madeBy, activeWorkers, goroutines, tombDying,
                   nTasks, vars, pvars, svars,
                   qvars>>

SupervisorStore ==
    /\ supervisor.pc = "store"
    /\ activeWorkers' = supervisor.reg + 1
    /\ supervisor' = [pc |-> "select", reg |-> 0]
    /\ UNCHANGED <<pool, madeBy, goroutines, tombDying, nTasks, vars,
                   pvars, svars,
                   qvars>>

\* case <-t.Dying(): return
SupervisorReturns ==
    /\ supervisor.pc = "select"
    /\ tombDying
    /\ supervisor' = [supervisor EXCEPT !.pc = "returned"]
    /\ UNCHANGED <<pool, madeBy, activeWorkers, goroutines, tombDying,
                   nTasks, vars, pvars, svars,
                   qvars>>

\* worker: for task := range pool.tasks
WorkerReceives ==
    /\ pool.tasks # <<>>
    /\ \E g \in 1..MaxGoroutines :
        /\ goroutines[g].pc = "range"
        /\ \A h \in 1..(g - 1) : goroutines[h].pc # "range"
        /\ goroutines' = [goroutines EXCEPT ![g].pc = "work"]
    /\ pool' = [pool EXCEPT !.tasks = Tail(@)]
    /\ UNCHANGED <<madeBy, activeWorkers, supervisor, tombDying, nTasks,
                   vars, pvars, svars,
                   qvars>>

\* work(t, task) returns: nil, and the worker ranges on; or an error, and
\* worker returns it to the closure.
WorkReturns ==
    /\ \E g \in 1..MaxGoroutines, err \in BOOLEAN :
        /\ goroutines[g].pc = "work"
        /\ goroutines' = [goroutines EXCEPT
                            ![g].pc = IF err THEN "load" ELSE "range"]
    /\ UNCHANGED <<pool, madeBy, activeWorkers, supervisor, tombDying,
                   nTasks, vars, pvars, svars,
                   qvars>>

\* activeWorkers-- in the closure: the load, then the store.
WorkerLoad ==
    /\ \E g \in 1..MaxGoroutines :
        /\ goroutines[g].pc = "load"
        /\ goroutines' = [goroutines EXCEPT
                            ![g] = [pc |-> "store", reg |-> activeWorkers]]
    /\ UNCHANGED <<pool, madeBy, activeWorkers, supervisor, tombDying,
                   nTasks, vars, pvars, svars,
                   qvars>>

WorkerStore ==
    /\ \E g \in 1..MaxGoroutines :
        /\ goroutines[g].pc = "store"
        /\ activeWorkers' = goroutines[g].reg - 1
        /\ goroutines' = [goroutines EXCEPT
                            ![g] = [pc |-> "return", reg |-> 0]]
    /\ UNCHANGED <<pool, madeBy, supervisor, tombDying, nTasks, vars,
                   pvars, svars,
                   qvars>>

\* The closure returns the error of worker to the tomb, which kills
\* itself with it.
WorkerReturns ==
    /\ \E g \in 1..MaxGoroutines :
        /\ goroutines[g].pc = "return"
        /\ goroutines' = [goroutines EXCEPT ![g].pc = "returned"]
    /\ tombDying' = TRUE
    /\ UNCHANGED <<pool, madeBy, activeWorkers, supervisor, nTasks, vars,
                   pvars, svars,
                   qvars>>

\* A task is sent on pool.tasks.
Submit ==
    /\ nTasks < MaxTasks
    /\ Len(pool.tasks) < TASK_CHAN_SIZE
    /\ pool' = [pool EXCEPT !.tasks = Append(@, nTasks + 1)]
    /\ nTasks' = nTasks + 1
    /\ UNCHANGED <<madeBy, activeWorkers, supervisor, goroutines,
                   tombDying, vars, pvars, svars,
                   qvars>>

\* The tomb is killed from outside the pool.
Kill ==
    /\ ~tombDying
    /\ tombDying' = TRUE
    /\ UNCHANGED <<pool, madeBy, activeWorkers, supervisor, goroutines,
                   nTasks, vars, pvars, svars,
                   qvars>>

\* The steps the pool takes by itself.
PoolStep ==
    \/ SupervisorGo
    \/ SupervisorLoad
    \/ SupervisorStore
    \/ SupervisorReturns
    \/ WorkerReceives
    \/ WorkReturns
    \/ WorkerLoad
    \/ WorkerStore
    \/ WorkerReturns

PoolNext ==
    \/ PoolStep
    \/ Submit
    \/ Kill

PoolSpec == InitPool /\ [][PoolNext]_allVars

\* ----------------------------------------------- the queues in operation
\* Setup starts a worker.
CountedSetup ==
    /\ \E w \in 1..NWorkers :
        /\ readers[w] = "unstarted"
        /\ \A v \in 1..(w - 1) : readers[v] # "unstarted"
        /\ readers' = [readers EXCEPT ![w] = "range"]
    /\ UNCHANGED <<nOpen, nQueued, nMessages, accepting, vars, pvars, svars,
                   wvars>>

\* Run: listener.Accept returns a connection and addClientSession adds its
\* session; the loop goes on to s.pool.AddTask(conn).
CountedAccept ==
    /\ accepting = "Accept"
    /\ nOpen < MaxOpen
    /\ nOpen' = nOpen + 1
    /\ accepting' = "AddTask"
    /\ UNCHANGED <<nQueued, nMessages, readers, vars, pvars, svars, wvars>>

\* Run: s.pool.AddTask(conn), a send on pool.tasks.
CountedAddTask ==
    /\ accepting = "AddTask"
    /\ nQueued < TASK_CHAN_SIZE
    /\ nQueued' = nQueued + 1
    /\ accepting' = "Accept"
    /\ UNCHANGED <<nOpen, nMessages, readers, vars, pvars, svars, wvars>>

\* worker: a task is received, handleConnection calls conn.Read.
CountedTakeTask ==
    /\ nQueued > 0
    /\ \E w \in 1..NWorkers :
        /\ readers[w] = "range"
        /\ \A v \in 1..(w - 1) : readers[v] # "range"
        /\ readers' = [readers EXCEPT ![w] = "Read"]
    /\ nQueued' = nQueued - 1
    /\ UNCHANGED <<nOpen, nMessages, accepting, vars, pvars, svars, wvars>>

\* handleConnection: conn.Read returns. A frame that parses is sent on; a
\* read error or a frame that does not parse deletes the session, and the
\* worker takes its next task.
CountedRead ==
    /\ \E w \in 1..NWorkers, ok \in BOOLEAN :
        /\ readers[w] = "Read"
        /\ readers' = [readers EXCEPT
                         ![w] = IF ok THEN "send" ELSE "range"]
    /\ UNCHANGED <<nOpen, nQueued, nMessages, accepting, vars, pvars, svars,
                   wvars>>

\* handleConnection: s.clientMessages <- ClientMessage{...}
CountedEnqueue ==
    /\ nMessages < ClientMessagesSize
    /\ \E w \in 1..NWorkers :
        /\ readers[w] = "send"
        /\ readers' = [readers EXCEPT ![w] = "AddTask"]
    /\ nMessages' = nMessages + 1
    /\ UNCHANGED <<nOpen, nQueued, accepting, vars, pvars, svars, wvars>>

\* handleConnection: s.pool.AddTask(conn), and the worker takes its next
\* task.
CountedResubmit ==
    /\ nQueued < TASK_CHAN_SIZE
    /\ \E w \in 1..NWorkers :
        /\ readers[w] = "AddTask"
        /\ readers' = [readers EXCEPT ![w] = "range"]
    /\ nQueued' = nQueued + 1
    /\ UNCHANGED <<nOpen, nMessages, accepting, vars, pvars, svars, wvars>>

\* sessionHandler: a message is received and handled.
CountedReceive ==
    /\ nMessages > 0
    /\ nMessages' = nMessages - 1
    /\ UNCHANGED <<nOpen, nQueued, readers, accepting, vars, pvars, svars,
                   wvars>>

QueueNext ==
    \/ CountedSetup
    \/ CountedAccept
    \/ CountedAddTask
    \/ CountedTakeTask
    \/ CountedRead
    \/ CountedEnqueue
    \/ CountedResubmit
    \/ CountedReceive

QueueSpec == Init /\ [][QueueNext]_allVars

\* ----------------------------------------------- session-layer properties
\* C11: once a connection has sent a NewOrder with username U, the report
\* of a trade of owner U is resolved to that connection's session and
\* written to it, while the session is live (registered, its client there).
C11_ReportReachesOwner ==
    hist.trade.kind = "trade" =>
        \A c \in hist.trade.live :
            (ClientNames(c) \cap {hist.trade.Party, hist.trade.CounterParty}
                 # {})
              => c \in hist.trade.reported

\* C12: when the write of a report fails, the session is closed and removed
\* from the session map in the step in which the reporter returns the
\* error, and nothing is written to that connection afterwards.
C12_FailedWriteEvicts ==
    [][\A c \in hist.failedWrites' :
          /\ RemoteAddr(c) \notin clientSessions'
          /\ socket'[c] = "closed"
          /\ c \in hist.failedWrites => written'[c] = written[c]]_allVars

C12_Witness ==
    \E c \in hist.failedWrites :
        /\ written[c] # <<>>
        /\ RemoteAddr(c) \notin clientSessions

\* The read tasks of a connection that are outstanding: in the task queue
\* or in the hands of a worker.
Outstanding(c) ==
    Cardinality({i \in DOMAIN tasks : tasks[i] = c})
      + Cardinality({w \in 1..NWorkers : workers[w].conn = c})

\* C13: the messages of a connection reach the dispatcher in the order they
\* were read (frame ids grow along a connection), and a connection has at
\* most one read task outstanding.
C13_FifoPerConnection ==
    \A c \in Conns :
        /\ Outstanding(c) <= 1
        /\ \A i, j \in DOMAIN hist.dispatched[c] :
              i < j => hist.dispatched[c][i] < hist.dispatched[c][j]

C13_Witness ==
    \E c \in Conns :
        /\ Len(hist.dispatched[c]) >= 2
        /\ \E w \in 1..NWorkers : workers[w].pc = "reading"

C15_AckIffPlaced ==
    (/\ hist.handled.kind = "handled"
     /\ hist.handled.TypeOf = NewOrder
     /\ hist.handled.live
     /\ hist.handled.err)
      => /\ hist.handled.reports = <<"ErrorReport">>
         /\ \A g \in acks : g.id # hist.handled.id

\* C16: in the step in which a frame fails to parse, an ErrorReport is
\* written to the client, whose session stays registered and whose
\* connection goes back to the pool.
C16_ParseFailureReported ==
    [][\A c \in hist.failedParses' \ hist.failedParses :
          /\ written'[c] = Append(written[c], "ErrorReport")
          /\ RemoteAddr(c) \in clientSessions'
          /\ Outstanding(c)' = 1]_allVars

\* C17: a read error removes the session and closes the socket, enqueues
\* no message, and the connection is never again a task of the pool.
C17_ReadErrorEvicts ==
    [][/\ \A c \in hist.failedReads' :
            /\ RemoteAddr(c) \notin clientSessions'
            /\ socket'[c] = "closed"
            /\ Outstanding(c)' = 0
       /\ hist.failedReads' # hist.failedReads
            => clientMessages' = clientMessages]_allVars

C17_Witness ==
    \E c \in hist.failedReads \ hist.failedWrites :
        /\ ~crashed
        /\ tasks # <<>>

\* Every goroutine of Run has returned.
Terminated ==
    /\ acceptLoop = "returned"
    /\ setup = "returned"
    /\ \A w \in 1..NWorkers : workers[w].pc \in {"unstarted", "returned"}
    /\ \A d \in SessionHandlers : sessionHandlers[d].pc = "returned"

\* C18: after the cancellation signal, when no client connects or sends any
\* more and the server has no step left to take, the accept loop, the
\* workers and the dispatcher have all terminated.
C18_ShutdownTerminates ==
    (dying /\ ~crashed /\ ~ENABLED ServerStep) => Terminated

\* C31: the session map is read and modified only while the session mutex
\* is held (every add, every delete, the lock-free eviction included, and
\* every lookup before a write), no path locks the mutex while holding
\* it, and every path that took the mutex has released it when it returns.
C31_MapUnderMutex ==
    /\ ~hist.mutex.unguarded
    /\ ~hist.mutex.relocked
    /\ ~hist.mutex.locked

\* Two sessions were added, deleteClientSession removed one after a frame
\* that did not parse, and a reporter looked the other up and evicted it
\* through the lock-free helper after a failed write.
C31_Witness ==
    /\ hist.failedWrites # {}
    /\ hist.failedParses # {}
    /\ \A c \in Conns : socket[c] # "none"


BlockedSending ==
    {w \in 1..NWorkers :
        /\ workers[w].pc = "step"
        /\ handleConnectionSteps[workers[w].at] = "send"
        /\ Len(clientMessages) = ClientMessagesSize}

\* C33: once the dispatcher has returned, no message that was on the
\* dispatcher channel when the cancellation signal came is still on it
\* (each was handed to the engine first; hist.atSignal holds those not yet
\* handed over), and no worker is blocked in its send on the channel,
\* which nothing receives from any more.
C33_DispatcherDrains ==
    (~crashed /\ \A d \in SessionHandlers :
                    sessionHandlers[d].pc = "returned")
      => /\ \A i \in DOMAIN clientMessages :
               clientMessages[i].id \notin hist.atSignal
         /\ BlockedSending = {}


\* The last message handled was a NewOrder, and an execution report was
\* written to the connection it came from while it was handled: the report
\* of the party, which names the order of the message.
TradedAtOnce ==
    /\ ~crashed
    /\ hist.handled.kind = "handled"
    /\ hist.handled.TypeOf = NewOrder
    /\ \E i \in DOMAIN hist.handled.reports :
          hist.handled.reports[i] = "ExecutionReport"

\* C36: when an execution report naming a NewOrder has been written to
\* the connection of its originator, the order-placed ack of that order
\* was written before: the goroutine that writes it is not still to run.
C36_AckBeforeExecution ==
    TradedAtOnce => \A g \in acks : g.id # hist.handled.id


\* The owners of the last trade reported, and those of them whose session
\* was in the map with its client there when ReportTrade was called.
TradeOwners == {hist.trade.Party, hist.trade.CounterParty}
LiveOwners == {RemoteAddr(c) : c \in hist.trade.live} \cap TradeOwners

\* C37: when one owner of a trade has a live session and the session of
\* the other is missing or cannot be written, the execution report of the
\* trade is still written to the live one. Stated of the trades whose
\* owners are both keys the session map has had (remote addresses).
C37_LiveSideStillReported ==
    (/\ hist.trade.kind = "trade"
     /\ TradeOwners \subseteq {RemoteAddr(c) : c \in Conns}
     /\ TradeOwners \ LiveOwners # {})
      => \A c \in hist.trade.live :
            RemoteAddr(c) \in TradeOwners => c \in hist.trade.reported


\* A worker, or the accept loop, is blocked in a send: on the full task
\* queue, or on the full dispatcher channel.
ReaderBlocked(w) ==
    \/ readers[w] = "AddTask" /\ nQueued = TASK_CHAN_SIZE
    \/ readers[w] = "send" /\ nMessages = ClientMessagesSize
AcceptBlocked == accepting = "AddTask" /\ nQueued = TASK_CHAN_SIZE

\* A goroutine can receive from a queue something is blocked on: a worker
\* ranging over the task queue, or the dispatcher, which is running, when
\* a worker is blocked on its channel.
CanReceive ==
    \/ \E w \in 1..NWorkers : readers[w] = "range"
    \/ \E w \in 1..NWorkers : readers[w] = "send"

\* C38: whatever the number of open connections, the session layer never
\* reaches a state in which every worker and the accept loop are blocked
\* sending to the full task queue or the full dispatcher channel while no
\* goroutine can receive.
C38_NoQueueDeadlock ==
    ~(/\ \A w \in 1..NWorkers : ReaderBlocked(w)
      /\ AcceptBlocked
      /\ ~CanReceive)


\* C39: a pool made by NewWorkerPool(size), size >= 1, with Setup running
\* runs size workers, and every task submitted is picked up by a worker:
\* when the tomb is alive and the pool has no step left to take, size
\* goroutines are inside worker and no task is left on pool.tasks.
C39_SubmittedTasksAreRead ==
    (/\ madeBy.by = "NewWorkerPool"
     /\ madeBy.size >= 1
     /\ nTasks > 0
     /\ ~tombDying
     /\ ~ENABLED PoolStep)
      => /\ Cardinality(Running) = madeBy.size
         /\ pool.tasks = <<>>

====
